---- MODULE Spec2Model ----
(***************************************************************************)
(* A model of the product enhancement pipeline of sql_processor:           *)
(*   product_ai_enhancer.py  ProductNormalizer, ProductAIEnhancer,         *)
(*                           ProductProcessor                              *)
(*   process_large_json.py   LargeJSONProcessor                            *)
(*   database_integration.py DatabaseInserter, ProductPipeline             *)
(*                                                                         *)
(* Python values are records [t, s, n]: t is the type, s the text of a     *)
(* string, n the value of a number (bool: 0/1) or the length of a list.    *)
(* A dict is [t |-> "dict", d |-> function from keys to values].           *)
(* Text is a sequence of symbols: the punctuation characters one by one,   *)
(* and each run of letters or digits as one symbol.                        *)
(*                                                                         *)
(* Specifications:                                                         *)
(*   SpecEnhance  one call of ProductAIEnhancer.enhance_product            *)
(*   SpecProduct  one call of ProductProcessor.process_product             *)
(*   SpecFile     one LargeJSONProcessor.process_file call on a new        *)
(*                processor, statement by statement, with KeyboardInterrupt*)
(*   SpecStore    the same call on a processor built with a db_config      *)
(*   SpecRuns     process_file calls one after the other on one processor  *)
(*   SpecNormalize  one call of one of the five normalizers                *)
(*   SpecInserter   calls on one DatabaseInserter                          *)
(*   SpecBulk       one bulk_insert_products call                          *)
(*   SpecPipeline   one ProductPipeline.process_and_store_products call    *)
(*   SpecFileFair   SpecFile where the program's statements keep running   *)
(*   SpecGuard      SpecFile where the loop body of process_batch may raise*)
(* The wall clock is left out, and writing the final file succeeds.        *)
(***************************************************************************)
EXTENDS Integers, Sequences, FiniteSets, TLC

\* ------------------------------------------------------------------ values

PyNone == [t |-> "null", s |-> "", n |-> 0]
Absent == [t |-> "absent", s |-> "", n |-> 0]
Num(k) == [t |-> "num", s |-> "", n |-> k]
Str(x) == [t |-> "str", s |-> x, n |-> 0]
Bool(b) == [t |-> "bool", s |-> "", n |-> IF b THEN 1 ELSE 0]
List(k) == [t |-> "list", s |-> "", n |-> k]
Dict(f) == [t |-> "dict", d |-> f]
Opaque == [t |-> "str", s |-> "<opaque>", n |-> 0]

\* dict.get(key, default): the default only when the key is absent
Get(dict, key, default) ==
    IF key \in DOMAIN dict.d /\ dict.d[key].t # "absent" THEN dict.d[key] ELSE default

HasKey(dict, key) == key \in DOMAIN dict.d /\ dict.d[key].t # "absent"

\* bool(v)
Truthy(v) ==
    CASE v.t \in {"null", "absent"} -> FALSE
      [] v.t \in {"num", "bool", "list"} -> v.n # 0
      [] v.t = "str" -> v.s # ""
      [] v.t = "dict" -> \E k \in DOMAIN v.d : v.d[k].t # "absent"
      [] OTHER -> TRUE

\* the strings float() and int() accept, with their values
NumericStr == ("0" :> 0) @@ ("5" :> 5) @@ ("10" :> 10) @@ ("50" :> 50)

\* float(v) succeeds
FloatOK(v) == v.t \in {"num", "bool"} \/ (v.t = "str" /\ v.s \in DOMAIN NumericStr)

FloatVal(v) == IF v.t = "str" THEN NumericStr[v.s] ELSE v.n

\* v > 0 and v < w are defined between numbers (and bools) only
Ordered(v) == v.t \in {"num", "bool"}

\* ------------------------------------------------------------------ text

LBRACE == "{"
RBRACE == "}"
QUOTE == "\""
SLASH == "/"
STAR == "*"
NEWLINE == "\n"
COLON == ":"
COMMA == ","
SPACE == " "

Punct == {LBRACE, RBRACE, QUOTE, SLASH, STAR, NEWLINE, COLON, COMMA, SPACE}

\* str.find(ch): the 0-based index of the first occurrence, or -1
Find(text, ch) ==
    IF \E i \in 1..Len(text) : text[i] = ch
    THEN (CHOOSE i \in 1..Len(text) : text[i] = ch /\ \A j \in 1..(i - 1) : text[j] # ch) - 1
    ELSE -1

\* str.rfind(ch): the 0-based index of the last occurrence, or -1
RFind(text, ch) ==
    IF \E i \in 1..Len(text) : text[i] = ch
    THEN (CHOOSE i \in 1..Len(text) : text[i] = ch /\ \A j \in (i + 1)..Len(text) : text[j] # ch) - 1
    ELSE -1

\* text[a:b] for 0 <= a, 0 <= b
Slice(text, a, b) == SubSeq(text, a + 1, IF b > Len(text) THEN Len(text) ELSE b)

\* the first position >= i holding ch, or 0
NextAt(text, ch, i) ==
    IF \E k \in i..Len(text) : text[k] = ch
    THEN CHOOSE k \in i..Len(text) : text[k] = ch /\ \A j \in i..(k - 1) : text[j] # ch
    ELSE 0

\* the first position k >= i with text[k] = STAR and text[k+1] = SLASH, or 0
NextClose(text, i) ==
    IF \E k \in i..(Len(text) - 1) : text[k] = STAR /\ text[k + 1] = SLASH
    THEN CHOOSE k \in i..(Len(text) - 1) :
            /\ text[k] = STAR /\ text[k + 1] = SLASH
            /\ \A j \in i..(k - 1) : ~(text[j] = STAR /\ text[j + 1] = SLASH)
    ELSE 0

RECURSIVE StripLineFrom(_, _)
\* re.sub(r'//.*?\n', '\n', text) from position i on: a match starts at "//" and
\* ends at the first newline after it; with no newline left there is no match
StripLineFrom(text, i) ==
    IF i > Len(text) THEN <<>>
    ELSE IF i < Len(text) /\ text[i] = SLASH /\ text[i + 1] = SLASH
              /\ NextAt(text, NEWLINE, i + 2) # 0
         THEN <<NEWLINE>> \o StripLineFrom(text, NextAt(text, NEWLINE, i + 2) + 1)
         ELSE <<text[i]>> \o StripLineFrom(text, i + 1)

StripLineComments(text) == StripLineFrom(text, 1)

RECURSIVE StripBlockFrom(_, _)
\* re.sub(r'/\*.*?\*/', '', text, flags=re.DOTALL) from position i on
StripBlockFrom(text, i) ==
    IF i > Len(text) THEN <<>>
    ELSE IF i < Len(text) /\ text[i] = SLASH /\ text[i + 1] = STAR
              /\ NextClose(text, i + 2) # 0
         THEN StripBlockFrom(text, NextClose(text, i + 2) + 2)
         ELSE <<text[i]>> \o StripBlockFrom(text, i + 1)

StripBlockComments(text) == StripBlockFrom(text, 1)

RECURSIVE Concat(_)
\* "".join(symbols)
Concat(syms) == IF syms = <<>> THEN "" ELSE Head(syms) \o Concat(Tail(syms))

\* ------------------------------------------------------------------ json.loads

Whitespace == {SPACE, NEWLINE}

\* the first position >= i that holds no whitespace (Len(text) + 1 when none)
SkipWs(text, i) ==
    IF \E k \in i..Len(text) : text[k] \notin Whitespace
    THEN CHOOSE k \in i..Len(text) :
            text[k] \notin Whitespace /\ \A j \in i..(k - 1) : text[j] \in Whitespace
    ELSE Len(text) + 1

\* the number literals of the texts, with their values
NumberWord == ("1" :> 1) @@ ("50" :> 50)

ParseFail == [ok |-> FALSE, next |-> 0, val |-> PyNone]

\* a string starting at the quote at position i: it ends at the next quote and
\* holds no control character (no escapes occur in the texts)
ParseString(text, i) ==
    LET close == NextAt(text, QUOTE, i + 1) IN
    IF close = 0 \/ \E k \in (i + 1)..(close - 1) : text[k] = NEWLINE
    THEN ParseFail
    ELSE [ok |-> TRUE, next |-> close + 1,
          val |-> Str(Concat(SubSeq(text, i + 1, close - 1)))]

RECURSIVE ParseValue(_, _)
RECURSIVE ParseMembers(_, _, _)

\* the members of an object from the key expected at position i on; acc holds the
\* members read so far, and a repeated key keeps its last value
ParseMembers(text, i, acc) ==
    IF i > Len(text) \/ text[i] # QUOTE THEN ParseFail
    ELSE LET key == ParseString(text, i) IN
         IF ~key.ok THEN ParseFail
         ELSE LET c == SkipWs(text, key.next) IN
              IF c > Len(text) \/ text[c] # COLON THEN ParseFail
              ELSE LET v == ParseValue(text, SkipWs(text, c + 1)) IN
                   IF ~v.ok THEN ParseFail
                   ELSE LET e == SkipWs(text, v.next)
                            got == (key.val.s :> v.val) @@ acc
                        IN IF e > Len(text) THEN ParseFail
                           ELSE IF text[e] = RBRACE
                                THEN [ok |-> TRUE, next |-> e + 1, val |-> Dict(got)]
                           ELSE IF text[e] = COMMA
                                THEN ParseMembers(text, SkipWs(text, e + 1), got)
                           ELSE ParseFail

ParseValue(text, i) ==
    IF i > Len(text) THEN ParseFail
    ELSE IF text[i] = QUOTE THEN ParseString(text, i)
    ELSE IF text[i] = LBRACE
         THEN LET j == SkipWs(text, i + 1) IN
              IF j <= Len(text) /\ text[j] = RBRACE
              THEN [ok |-> TRUE, next |-> j + 1, val |-> Dict(<<>>)]
              ELSE ParseMembers(text, j, <<>>)
    ELSE IF text[i] \in DOMAIN NumberWord
         THEN [ok |-> TRUE, next |-> i + 1, val |-> Num(NumberWord[text[i]])]
    ELSE IF text[i] = "null" THEN [ok |-> TRUE, next |-> i + 1, val |-> PyNone]
    ELSE IF text[i] \in {"true", "false"}
         THEN [ok |-> TRUE, next |-> i + 1, val |-> Bool(text[i] = "true")]
    ELSE ParseFail

\* json.loads(text): one value, whitespace around it, nothing after it;
\* ok = FALSE stands for json.JSONDecodeError
JsonLoads(text) ==
    LET r == ParseValue(text, SkipWs(text, 1)) IN
    IF r.ok /\ SkipWs(text, r.next) > Len(text) THEN r ELSE ParseFail

\* ------------------------------------------------------------------ ProductData

\* a / b rounded up to a whole number (b # 0): prices and percentages are whole
\* numbers here, and rounding up keeps a quotient's order against every whole number
\* it is strictly greater than
CeilDiv(a, b) == IF b > 0 THEN 0 - ((0 - a) \div b) ELSE 0 - (a \div (0 - b))

\* str(v)
PyStr(v) ==
    CASE v.t = "str" -> v
      [] v.t = "null" -> Str("None")
      [] v.t = "num" /\ v.n \in {0, 5, 10, 50} ->
            Str(CHOOSE x \in DOMAIN NumericStr : NumericStr[x] = v.n)
      [] OTHER -> Opaque

\* the dataclass with its defaults; the descriptive, category and media fields
\* the pipeline only copies are carried by product_name and brand_name
ProductData(product_id) ==
    [t |-> "ProductData",
     product_id |-> product_id,
     product_name |-> Str(""),
     brand_name |-> Str(""),
     current_price |-> PyNone,
     regular_price |-> PyNone,
     discount_percentage |-> PyNone,
     has_discount |-> Bool(FALSE),
     currency_code |-> Str("EUR"),
     rating_value |-> PyNone,
     rating_count |-> PyNone,
     store_name |-> Str("")]

IsDict(v) == v.t = "dict"

\* value if value is not None else default
OrDefault(v, default) == IF v.t = "null" THEN default ELSE v

\* for x in v / ", ".join(v) / v.split(): v can be walked without an error
\* (a list here holds well-formed elements)
Iterable(v) == v.t \in {"list", "str", "dict"}

\* ------------------------------------------------------------------ normalizers
\* The try block of each normalizer gives a ProductData, or NormalizeError where a
\* statement of it raises; the except clause turns that into None.

\* an exception on its way out of a try block
NormalizeError == [t |-> "raised", s |-> "", n |-> 0]

\* a normalizer without its except clause: the variant that C13 excludes
normalizer_no_except(out) == out

\* except Exception as e: ... return None
normalizer_except(out) == IF out.t = "raised" THEN PyNone ELSE out

normalize_lidl_try(data, store_name) ==
    IF ~IsDict(data) THEN NormalizeError
    ELSE
    LET price_raw == Get(data, "price", PyNone)
        old_price_raw == Get(data, "old_price", PyNone)
        pct_raw == Get(data, "discount_percentage", PyNone)
    IN
    IF (price_raw.t # "null" /\ ~FloatOK(price_raw))
       \/ (old_price_raw.t # "null" /\ ~FloatOK(old_price_raw))
    THEN NormalizeError
    ELSE
    LET current_price == IF price_raw.t # "null" THEN FloatVal(price_raw) ELSE 0
        old_price == IF old_price_raw.t # "null" THEN FloatVal(old_price_raw) ELSE 0
        byPrices == old_price > 0 /\ current_price > 0 /\ current_price < old_price
        byPct == ~byPrices /\ Truthy(pct_raw)
    IN
    IF byPct /\ ~FloatOK(pct_raw) THEN NormalizeError
    ELSE
    LET discount_percentage ==
            IF byPrices THEN CeilDiv((old_price - current_price) * 100, old_price)
            ELSE IF byPct THEN FloatVal(pct_raw) ELSE 0
        backCompute == byPct /\ current_price > 0 /\ discount_percentage > 0
    IN
    IF backCompute /\ discount_percentage = 100 THEN NormalizeError
    ELSE
    [ProductData(PyStr(Get(data, "product_id", Get(data, "item_id", Str(""))))) EXCEPT
        !.product_name = OrDefault(Get(data, "name", Str("")), Str("")),
        !.current_price = Num(current_price),
        !.regular_price =
            IF byPrices THEN Num(old_price)
            ELSE IF backCompute
                 THEN Num(CeilDiv(current_price * 100, 100 - discount_percentage))
                 ELSE PyNone,
        !.discount_percentage =
            IF discount_percentage > 0 THEN Num(discount_percentage) ELSE PyNone,
        !.has_discount = Bool(byPrices \/ byPct),
        !.currency_code = OrDefault(Get(data, "currency_code", Str("EUR")), Str("EUR")),
        !.store_name = Str(store_name)]

normalize_dm_try(data, store_name) ==
    IF ~IsDict(data) THEN NormalizeError
    ELSE
    LET price_info == Get(data, "price", Dict(<<>>))
        images == Get(data, "imageUrlTemplates", PyNone)
        categoryNames == Get(data, "categoryNames", List(0))
    IN
    IF \/ Truthy(price_info) /\ ~IsDict(price_info)
       \/ Truthy(images) /\ images.t \notin {"list", "str"}
       \/ ~Iterable(categoryNames)
    THEN NormalizeError
    ELSE
    [ProductData(PyStr(Get(data, "dan", Str("")))) EXCEPT
        !.product_name = Get(data, "name", Str("")),
        !.brand_name = Get(data, "brandName", Str("")),
        !.current_price =
            IF Truthy(price_info) THEN Get(price_info, "value", Num(0)) ELSE Num(0),
        !.currency_code =
            IF Truthy(price_info) THEN Get(price_info, "currencyIso", Str("EUR"))
            ELSE Str("EUR"),
        !.rating_value = Get(data, "ratingValue", Num(0)),
        !.rating_count = Get(data, "ratingCount", Num(0)),
        !.store_name = Str(store_name)]

normalize_mercator_try(data, store_name) ==
    IF ~IsDict(data) THEN NormalizeError
    ELSE
    LET product_data == Get(data, "data", Dict(<<>>)) IN
    IF ~IsDict(product_data) THEN NormalizeError
    ELSE
    LET gtins == Get(product_data, "gtins", List(0))
        cur_raw == Get(product_data, "current_price", Num(0))
        normal_raw == Get(product_data, "normal_price", Num(0))
        allergens == Get(product_data, "allergens", List(0))
        rating == Get(product_data, "rating", Num(0))
        ratings_num == Get(product_data, "ratings_num", Num(0))
    IN
    IF \/ Truthy(gtins) /\ gtins.t # "list"
       \/ ~FloatOK(cur_raw) \/ ~FloatOK(normal_raw)
       \/ ~Iterable(allergens) \/ (allergens.t # "list" /\ Truthy(allergens))
       \/ ~FloatOK(rating) \/ ~FloatOK(ratings_num)
    THEN NormalizeError
    ELSE
    LET current_price == FloatVal(cur_raw)
        normal_price == FloatVal(normal_raw)
        discount_percentage ==
            IF normal_price > 0 /\ current_price < normal_price
            THEN CeilDiv((normal_price - current_price) * 100, normal_price)
            ELSE 0
    IN
    [ProductData(Get(product_data, "cinv", Str(""))) EXCEPT
        !.product_name = Get(product_data, "name", Str("")),
        !.brand_name = Get(product_data, "brand_name", Str("")),
        !.current_price = Num(current_price),
        !.regular_price = IF normal_price > 0 THEN Num(normal_price) ELSE PyNone,
        !.discount_percentage =
            IF discount_percentage > 0 THEN Num(discount_percentage) ELSE PyNone,
        !.has_discount = Bool(discount_percentage > 0),
        !.rating_value = Num(FloatVal(rating)),
        !.rating_count = Num(FloatVal(ratings_num)),
        !.store_name = Str(store_name)]

normalize_spar_try(data, store_name) ==
    IF ~IsDict(data) THEN NormalizeError
    ELSE
    LET master_values == Get(data, "masterValues", Dict(<<>>)) IN
    IF ~IsDict(master_values) THEN NormalizeError
    ELSE
    LET price_raw == Get(master_values, "price", Num(0))
        best_raw == Get(master_values, "best-price", Num(0))
        regular_raw == Get(master_values, "regular-price", Num(0))
        category_names == Get(master_values, "category-names", Str(""))
    IN
    IF ~FloatOK(price_raw) \/ ~FloatOK(best_raw) \/ ~FloatOK(regular_raw)
       \/ category_names.t # "str"
    THEN NormalizeError
    ELSE
    LET best_price == FloatVal(best_raw)
        regular_price == FloatVal(regular_raw)
        has_discount == Get(master_values, "is-on-promotion", Str("false")) = Str("true")
        promo == has_discount /\ regular_price > 0 /\ best_price < regular_price
    IN
    [ProductData(Get(data, "id", Str(""))) EXCEPT
        !.product_name = Get(master_values, "name", Str("")),
        !.brand_name = Get(master_values, "ecr-brand", Str("")),
        !.current_price = Num(IF promo THEN best_price ELSE FloatVal(price_raw)),
        !.regular_price = IF regular_price > 0 THEN Num(regular_price) ELSE PyNone,
        !.discount_percentage =
            IF promo THEN Num(CeilDiv((regular_price - best_price) * 100, regular_price))
            ELSE PyNone,
        !.has_discount = Bool(has_discount),
        !.store_name = Str(store_name)]

normalize_tus_try(data, store_name) ==
    IF ~IsDict(data) THEN NormalizeError
    ELSE
    LET current_price == Get(data, "current_price_numeric", Num(0))
        regular_price == Get(data, "regular_price_numeric", Num(0))
        discount_percentage == Get(data, "discount_percentage", Num(0))
    IN
    IF ~Ordered(regular_price) \/ ~Ordered(discount_percentage) THEN NormalizeError
    ELSE
    [ProductData(Get(data, "id", Str(""))) EXCEPT
        !.product_name = Get(data, "name", Str("")),
        !.current_price = current_price,
        !.regular_price = IF regular_price.n > 0 THEN regular_price ELSE PyNone,
        !.discount_percentage =
            IF discount_percentage.n > 0 THEN discount_percentage ELSE PyNone,
        !.has_discount = Get(data, "has_discount", Bool(FALSE)),
        !.store_name = Str(store_name)]

normalize_lidl_product(data, store_name) ==
    normalizer_except(normalize_lidl_try(data, store_name))

normalize_dm_product(data, store_name) ==
    normalizer_except(normalize_dm_try(data, store_name))

normalize_mercator_product(data, store_name) ==
    normalizer_except(normalize_mercator_try(data, store_name))

normalize_spar_product(data, store_name) ==
    normalizer_except(normalize_spar_try(data, store_name))

normalize_tus_product(data, store_name) ==
    normalizer_except(normalize_tus_try(data, store_name))

\* ------------------------------------------------------------------ ProductAIEnhancer

\* the vocabulary, its accented letters written without the accents
UNIVERSAL_CATEGORIES ==
    {"Meso", "Ribe", "Sadje", "Zelenjava", "Mlecni izdelki", "Jajca",
     "Kruh", "Pekovski izdelki", "Testenine", "Riz", "Zita in kosmici",
     "Konzerve", "Trajni izdelki", "Zamrznjena hrana", "Sladkarije",
     "Prigrizki", "Nealkoholne pijace", "Alkoholne pijace", "Caji in kave",
     "Zacimbe", "Omake in dodatki", "Olja", "Kis", "Otroska hrana",
     "Bioloska hrana", "Hlajeni izdelki", "Sladoled", "Moke in peka", "Drugo"}

\* an f-string's rendering of a value
Format(v) ==
    CASE v.t = "str" -> v.s
      [] v.t = "null" -> "None"
      [] OTHER -> "<repr>"

get_default_ai_fields(product) ==
    Dict(
      [k \in {"ai_main_category"} |-> Str("Drugo")] @@
      [k \in {"ai_subcategory"} |-> Str("Nerazvrsceno")] @@
      [k \in {"ai_confidence"} |-> Str("low")] @@
      [k \in {"ai_product_summary"} |->
          Str(Format(product.product_name) \o " - " \o Format(product.brand_name))] @@
      [k \in {"ai_usage_suggestions", "ai_storage_tips", "ai_preparation_tips",
              "ai_pairing_suggestions", "ai_alternative_uses",
              "ai_substitute_products", "ai_allergen_list"} |-> Str("<advice>")] @@
      [k \in {"ai_recipe_compatibility", "ai_diet_compatibility"} |-> List(0)] @@
      [k \in {"ai_key_selling_points"} |-> List(1)] @@
      [k \in {"ai_optimal_quantity"} |-> Num(1)] @@
      [k \in {"ai_replacement_urgency"} |-> Str("when-convenient")] @@
      [k \in {"ai_bulk_discount_worthy", "ai_stockup_recommendation",
              "ai_organic_verified"} |-> Bool(FALSE)] @@
      [k \in {"ai_seasonal_availability"} |-> Str("year-round")] @@
      [k \in {"ai_purchase_frequency"} |-> Str("occasional")] @@
      [k \in {"ai_target_demographic"} |-> Str("families")] @@
      [k \in {"ai_meal_category"} |-> Str("ingredient")] @@
      [k \in {"ai_preparation_complexity"} |-> Str("simple")] @@
      [k \in {"ai_freshness_indicator", "ai_processing_level"} |-> Str("moderate")] @@
      [k \in {"ai_shelf_life_estimate"} |-> Num(30)] @@
      [k \in {"ai_storage_requirements"} |-> Str("room-temperature")] @@
      [k \in {"ai_health_score", "ai_additive_score", "ai_environmental_score"} |->
          Num(50)] @@
      [k \in {"ai_nutrition_grade"} |-> Str("C")] @@
      [k \in {"ai_allergen_risk", "ai_sugar_content", "ai_sodium_level"} |->
          Str("medium")] @@
      [k \in {"ai_value_rating", "ai_deal_quality"} |-> Str("fair")] @@
      [k \in {"ai_price_tier"} |-> Str("mid-range")] @@
      [k \in {"ai_quality_tier"} |-> Str("standard")] @@
      [k \in {"ai_unit_price_normalized"} |->
          IF Truthy(product.current_price) THEN product.current_price ELSE Num(0)])

\* the response has a "{" and a "}": json_start and json_end are found
HasBraces(text) == ~(Find(text, LBRACE) = -1 \/ RFind(text, RBRACE) + 1 = 0)

\* response_text[json_start:json_end]: from the first "{" to the last "}"
RawObjectText(text) == Slice(text, Find(text, LBRACE), RFind(text, RBRACE) + 1)

\* the two re.sub calls on that text: comments removed
extract_json_text(response_text) ==
    StripBlockComments(StripLineComments(RawObjectText(response_text)))

\* the lines after json.loads without the category check: the variant that C4 excludes
validate_ai_data_unchecked(ai_data, product) ==
    Dict(IF Truthy(product.current_price)
         THEN ("ai_unit_price_normalized" :> product.current_price) @@ ai_data.d
         ELSE ai_data.d)

\* the lines after json.loads: the category check and the unit price
validate_ai_data(ai_data, product) ==
    LET main == Get(ai_data, "ai_main_category", PyNone)
        checked == IF main.t = "str" /\ main.s \in UNIVERSAL_CATEGORIES
                   THEN ai_data.d
                   ELSE ("ai_main_category" :> Str("Drugo")) @@ ai_data.d
    IN Dict(IF Truthy(product.current_price)
            THEN ("ai_unit_price_normalized" :> product.current_price) @@ checked
            ELSE checked)

\* the outcome of enhance_product's try block once json.loads has run
enhance_product_parsed(product, parsed) ==
    IF ~parsed.ok
    THEN [exc |-> "JSONDecodeError", called |-> TRUE, path |-> "raised", fields |-> PyNone]
    ELSE [exc |-> "", called |-> TRUE, path |-> "parsed",
          fields |-> validate_ai_data(parsed.val, product)]

\* an enhance_product that invokes the collaborator before it builds the prompt:
\* the variant that C22 excludes
enhance_product_body_invoking_first(product, collab) ==
    IF product.t # "ProductData"
    THEN [exc |-> "AttributeError", called |-> TRUE, path |-> "raised", fields |-> PyNone]
    ELSE IF collab.raises
    THEN [exc |-> "CollaboratorError", called |-> TRUE, path |-> "raised",
          fields |-> PyNone]
    ELSE IF ~HasBraces(collab.text)
    THEN [exc |-> "", called |-> TRUE, path |-> "default",
          fields |-> get_default_ai_fields(product)]
    ELSE enhance_product_parsed(product, JsonLoads(extract_json_text(collab.text)))

\* collab is the text-generation collaborator's behaviour at this call: it raises,
\* or returns text. The try block of enhance_product: exc names the exception that
\* leaves it ("" for none), called tells whether generate_content was invoked.
enhance_product_body(product, collab) ==
    IF product.t # "ProductData"
    THEN \* create_ai_prompt(None) fails on product.product_name
         [exc |-> "AttributeError", called |-> FALSE, path |-> "raised", fields |-> PyNone]
    ELSE IF collab.raises
    THEN [exc |-> "CollaboratorError", called |-> TRUE, path |-> "raised",
          fields |-> PyNone]
    ELSE IF ~HasBraces(collab.text)
    THEN [exc |-> "", called |-> TRUE, path |-> "default",
          fields |-> get_default_ai_fields(product)]
    ELSE enhance_product_parsed(product, JsonLoads(extract_json_text(collab.text)))

\* enhance_product without its except branches: the variant that C5 excludes
enhance_product_no_except(product, body) ==
    [raised |-> body.exc # "", called |-> body.called, path |-> body.path,
     fields |-> body.fields]

\* the two except branches: both return the default fields; the second one first
\* logs product.product_name, which fails again when product is None
enhance_product_except(product, body) ==
    IF body.exc = ""
    THEN [raised |-> FALSE, called |-> body.called, path |-> body.path,
          fields |-> body.fields]
    ELSE IF body.exc # "JSONDecodeError" /\ product.t # "ProductData"
    THEN [raised |-> TRUE, called |-> body.called, path |-> "raised", fields |-> PyNone]
    ELSE [raised |-> FALSE, called |-> body.called, path |-> "default",
          fields |-> get_default_ai_fields(product)]

enhance_product(product, collab) ==
    enhance_product_except(product, enhance_product_body(product, collab))

\* ------------------------------------------------------------------ ProductProcessor

SupportedStores == {"dm", "mercator", "spar", "tus", "lidl"}

\* str.lower() on the store identifiers of the model
Lower(x) ==
    CASE x = "DM" -> "dm"
      [] x = "Lidl" -> "lidl"
      [] OTHER -> x

CanonicalKeys ==
    {"store_name", "product_id", "product_code", "ean_code", "erp_number",
     "product_name", "product_title", "brand_name", "product_description",
     "current_price", "regular_price", "discount_percentage", "has_discount",
     "currency_code", "product_url", "image_url", "store_category",
     "category_level_1", "category_level_2", "category_level_3",
     "rating_value", "rating_count", "scraped_at"}

\* the dict literal of process_product: the canonical keys first, then **ai_fields
merge_result(product, ai_fields) ==
    Dict(ai_fields.d @@
         [k \in CanonicalKeys |->
            CASE k = "store_name" -> product.store_name
              [] k = "product_id" -> product.product_id
              [] k = "product_name" -> product.product_name
              [] k = "brand_name" -> product.brand_name
              [] k = "current_price" -> product.current_price
              [] k = "regular_price" -> product.regular_price
              [] k = "discount_percentage" -> product.discount_percentage
              [] k = "has_discount" -> product.has_discount
              [] k = "currency_code" -> product.currency_code
              [] k = "rating_value" -> product.rating_value
              [] k = "rating_count" -> product.rating_count
              [] k = "scraped_at" -> Str("<now>")
              [] OTHER -> Opaque])

\* an if/elif chain whose else branch falls back to a normalizer: the variant that
\* C3 excludes
select_normalizer_fallback(store_type) ==
    IF Lower(store_type.s) \in SupportedStores THEN Lower(store_type.s) ELSE "lidl"

\* the normalizer the if/elif chain selects, "" for the else branch
select_normalizer(store_type) ==
    IF Lower(store_type.s) \in SupportedStores THEN Lower(store_type.s) ELSE ""

run_normalizer(name, product_json) ==
    CASE name = "dm" -> normalize_dm_product(product_json, "dm")
      [] name = "mercator" -> normalize_mercator_product(product_json, "mercator")
      [] name = "spar" -> normalize_spar_product(product_json, "spar")
      [] name = "tus" -> normalize_tus_product(product_json, "tus")
      [] name = "lidl" -> normalize_lidl_product(product_json, "lidl")

\* process_product from the merge on: the result dict, or the exception that
\* enhance_product let through
process_product_merge(name, product, ai) ==
    IF ai.raised
    THEN [raised |-> TRUE, ret |-> PyNone, normalizer |-> name, called |-> ai.called]
    ELSE [raised |-> FALSE, ret |-> merge_result(product, ai.fields),
          normalizer |-> name, called |-> ai.called]

process_product_enhance(name, product, collab) ==
    process_product_merge(name, product, enhance_product(product, collab))

\* the if/elif chain, name being the normalizer it selects
process_product_dispatch(name, product_json, collab) ==
    IF name = ""
    THEN [raised |-> FALSE, ret |-> PyNone, normalizer |-> "", called |-> FALSE]
    ELSE process_product_enhance(name, run_normalizer(name, product_json), collab)

\* the body of process_product's try block. raised: an exception leaves the body;
\* normalizer: the normalizer that ran ("" for none); called: the collaborator
\* was invoked.
process_product_body(product_json, store_type, collab) ==
    IF store_type.t # "str"
    THEN \* store_type.lower() raises
         [raised |-> TRUE, ret |-> PyNone, normalizer |-> "", called |-> FALSE]
    ELSE process_product_dispatch(select_normalizer(store_type), product_json, collab)

\* process_product without its except clause: the variant that C1 excludes
process_product_no_except(body) == body

\* except Exception: return None
process_product_except(body) ==
    IF body.raised THEN [body EXCEPT !.raised = FALSE, !.ret = PyNone] ELSE body

process_product(product_json, store_type, collab) ==
    process_product_except(process_product_body(product_json, store_type, collab))

\* ------------------------------------------------------------------ inputs

\* the longest member list of a collaborator's JSON object
MaxMembers == 2

SeqsUpTo(S, n) == UNION {[1..k -> S] : k \in 0..n}

RECURSIVE Join(_, _)
\* sep.join(parts), on symbol sequences
Join(parts, sep) ==
    IF parts = <<>> THEN <<>>
    ELSE IF Len(parts) = 1 THEN parts[1]
    ELSE parts[1] \o sep \o Join(Tail(parts), sep)

KeyText(k) == <<QUOTE, k, QUOTE, COLON>>
StrText(x) == <<QUOTE, x, QUOTE>>

\* "key": value members the collaborator writes; two of the string values hold
\* comment markers: "a//b" and "/*x*/"
Members ==
    {KeyText("ai_main_category") \o <<SPACE>> \o StrText("Sadje"),
     KeyText("ai_main_category") \o StrText("Bogus"),
     KeyText("ai_main_category") \o <<"1">>,
     KeyText("ai_subcategory") \o StrText("Nuts"),
     KeyText("ai_subcategory") \o <<QUOTE, "a", SLASH, SLASH, "b", QUOTE>>,
     KeyText("ai_subcategory") \o <<QUOTE, SLASH, STAR, "x", STAR, SLASH, QUOTE>>,
     KeyText("store_name") \o StrText("Bogus")}

LineComment == <<SLASH, SLASH, SPACE, "note">>
BlockComment == <<SLASH, STAR, SPACE, "note", SPACE, STAR, SLASH>>

\* what separates two members, and what follows the last one
Separators ==
    {<<COMMA>>, <<COMMA, NEWLINE>>, <<COMMA>> \o LineComment \o <<NEWLINE>>,
     BlockComment \o <<COMMA>>}

Tails ==
    {<<>>, <<NEWLINE>>, <<SPACE>> \o BlockComment, LineComment \o <<NEWLINE>>, LineComment}

ObjectText(members, sep, tail) == <<LBRACE>> \o Join(members, sep) \o tail \o <<RBRACE>>

ObjectTexts ==
    {ObjectText(ms, sep, tail) : ms \in SeqsUpTo(Members, MaxMembers),
                                 sep \in Separators, tail \in Tails}

\* responses that hold an object: bare, after a sentence, before a trailing comment
ObjectResponses ==
    ObjectTexts \cup {<<"note", SPACE>> \o o : o \in ObjectTexts}
                \cup {o \o <<SPACE>> \o LineComment : o \in ObjectTexts}

\* responses without an object
OtherResponses ==
    {<<>>, <<"note">>, <<LBRACE>>, <<RBRACE>>, <<RBRACE, SPACE, LBRACE>>,
     <<"note", LBRACE, QUOTE>>, <<"note", RBRACE>>, <<LBRACE, "note", RBRACE>>,
     <<LBRACE>> \o KeyText("ai_main_category") \o <<RBRACE>>,
     <<LBRACE>> \o KeyText("ai_main_category") \o <<"1", COMMA, RBRACE>>,
     <<LBRACE, RBRACE, RBRACE>>}

Raises == [raises |-> TRUE, text |-> <<>>]
Returns(text) == [raises |-> FALSE, text |-> text]

\* the collaborator's behaviours at one call of enhance_product
EnhanceCollabs == {Raises} \cup {Returns(x) : x \in ObjectResponses \cup OtherResponses}

\* the collaborator's behaviours at one call of process_product
ProductCollabs ==
    {Raises, Returns(<<"note">>), Returns(<<LBRACE, RBRACE>>),
     Returns(<<LBRACE>> \o KeyText("ai_main_category") \o StrText("Sadje") \o <<RBRACE>>),
     Returns(<<LBRACE>> \o KeyText("ai_main_category") \o StrText("Bogus") \o <<COMMA>>
             \o KeyText("ai_subcategory") \o StrText("Nuts") \o <<RBRACE>>),
     Returns(<<LBRACE>> \o KeyText("store_name") \o StrText("Bogus") \o <<RBRACE>>)}

\* the values a price field of a payload takes: missing, null, numbers, strings
PriceVals == {Absent, PyNone, Num(0), Num(5), Num(10), Str("abc"), Str("5")}
PctVals == {Absent, PyNone, Num(0), Num(50), Num(100), Num(0 - 10), Str("0"), Str("abc")}
NameVals == {Absent, PyNone, Str("Milk")}
ListVals == {Absent, PyNone, List(0), List(1)}

\* payloads that are no JSON object
NonDictPayloads == {PyNone, List(1), Str("a"), Num(5)}

LidlPayloads ==
    {Dict([product_id |-> Str("p1"), name |-> Str("Milk"),
           price |-> p, old_price |-> o, discount_percentage |-> d]) :
        p \in PriceVals, o \in PriceVals, d \in PctVals}

DmPayloads ==
    {Dict([dan |-> Str("p1"), name |-> nm, categoryNames |-> c, price |-> pr]) :
        nm \in NameVals, c \in ListVals,
        pr \in {Absent, PyNone, Num(5), Dict(<<>>)}
               \cup {Dict([value |-> v]) : v \in PriceVals}}

MercatorPayloads ==
    {Dict([url |-> Str("u"), data |-> dt]) :
        dt \in {Absent, PyNone, Str("abc")}
               \cup {Dict([cinv |-> Str("p1"), name |-> Str("Milk"), current_price |-> c,
                           normal_price |-> o, allergens |-> a]) :
                        c \in PriceVals, o \in PriceVals, a \in ListVals}}

SparPayloads ==
    {Dict([id |-> Str("p1"), masterValues |-> mv]) :
        mv \in {Absent, PyNone}
               \cup {Dict(("name" :> Str("Milk")) @@ ("price" :> c) @@ ("best-price" :> b)
                          @@ ("regular-price" :> r) @@ ("is-on-promotion" :> pr)
                          @@ ("category-names" :> cn)) :
                        c \in {Absent, PyNone, Num(10)}, b \in {Absent, Num(5), Str("abc")},
                        r \in {Absent, PyNone, Num(5), Num(10)},
                        pr \in {Absent, Str("true"), Str("false")},
                        cn \in {Absent, PyNone, Str("a|b")}}}

TusPayloads ==
    {Dict([id |-> Str("p1"), name |-> Str("Milk"), current_price_numeric |-> c,
           regular_price_numeric |-> r, discount_percentage |-> d, has_discount |-> h]) :
        c \in {Absent, PyNone, Num(5), Str("abc")}, r \in PriceVals, d \in PctVals,
        h \in {Absent, PyNone, Bool(TRUE), Bool(FALSE)}}

\* a few payloads for the store identifiers outside the five
SamplePayloads ==
    NonDictPayloads \cup
    {Dict([product_id |-> Str("p1"), name |-> Str("Milk"), price |-> Num(5)]),
     Dict([product_id |-> Str("p2"), name |-> Str("Milk"), price |-> Str("abc")]),
     Dict([dan |-> Str("p1"), name |-> Str("Milk"), price |-> Dict([value |-> Num(5)])])}

OtherStoreIds == {Str("DM"), Str("Lidl"), Str("unknown-store"), Str(""), PyNone}

\* the (payload, store identifier) arguments of process_product
ProductArgs ==
    ({p : p \in LidlPayloads \cup NonDictPayloads} \X {Str("lidl")})
    \cup ({p : p \in DmPayloads \cup NonDictPayloads} \X {Str("dm")})
    \cup ({p : p \in MercatorPayloads \cup NonDictPayloads} \X {Str("mercator")})
    \cup ({p : p \in SparPayloads \cup NonDictPayloads} \X {Str("spar")})
    \cup ({p : p \in TusPayloads \cup NonDictPayloads} \X {Str("tus")})
    \cup (SamplePayloads \X OtherStoreIds)

\* payloads whose fields are null, the identifier among them
NullFieldPayloads ==
    {Dict([product_id |-> PyNone, name |-> PyNone, price |-> PyNone]),
     Dict([dan |-> PyNone, name |-> PyNone, ratingValue |-> PyNone]),
     Dict([url |-> PyNone, data |-> Dict([cinv |-> PyNone, rating |-> PyNone])]),
     Dict([id |-> PyNone, masterValues |-> Dict([name |-> PyNone])]),
     Dict([id |-> PyNone, name |-> PyNone, has_discount |-> PyNone])}

\* the (normalizer, payload) pairs of a normalizer call
NormalizerCalls ==
    {[normalizer |-> args[2].s, data |-> args[1]] :
        args \in {a \in ProductArgs : a[2].s \in SupportedStores}}
    \cup [normalizer : SupportedStores, data : NullFieldPayloads]

\* canonical records for enhance_product: what the normalizers make of a few payloads
EnhanceProducts ==
    {normalize_lidl_product(
         Dict([product_id |-> Str("p1"), name |-> Str("Milk"), price |-> p]), "lidl") :
        p \in {Num(0), Num(5)}}
    \cup {normalize_dm_product(
              Dict([dan |-> Str("p1"), name |-> PyNone,
                    price |-> Dict([value |-> Str("abc")])]), "dm")}

\* ------------------------------------------------------------------ LargeJSONProcessor

\* a JSON array as json.load returns it, its elements kept
Array(items) == [t |-> "list", s |-> "", n |-> Len(items), items |-> items]

\* a JSON object at the top of a file: its members in file order
Object(members) == [t |-> "dict", members |-> members]

Member(key, value) == [key |-> key, value |-> value]

\* the characters of the strings a file holds where an array is expected
Chars(x) ==
    CASE x = "" -> <<>>
      [] x = "ab" -> <<"a", "b">>
      [] OTHER -> <<x>>

\* len(v) is defined
Sized(v) == v.t \in {"list", "str", "dict"}

\* len(v)
PyLen(v) ==
    CASE v.t = "list" -> v.n
      [] v.t = "str" -> Len(Chars(v.s))
      [] v.t = "dict" -> Cardinality({k \in DOMAIN v.d : v.d[k].t # "absent"})

\* what iterating over v yields: a list's elements, a string's characters
Elements(v) ==
    CASE v.t = "list" -> v.items
      [] v.t = "str" -> [k \in 1..Len(Chars(v.s)) |-> Str(Chars(v.s)[k])]

\* key in data
HasMember(data, key) == \E m \in 1..Len(data.members) : data.members[m].key = key

\* data[key]
MemberValue(data, key) ==
    data.members[CHOOSE m \in 1..Len(data.members) : data.members[m].key = key].value

Loaded(products) == [exc |-> "", products |-> products]
LoadError(exc) == [exc |-> exc, products |-> PyNone]

\* products = data[key], then the log line that takes len(products)
take_products(value) == IF Sized(value) THEN Loaded(value) ELSE LoadError("TypeError")

\* the for/else over data.items(): the first field holding a non-empty list
first_array(data) ==
    IF \E m \in 1..Len(data.members) :
          data.members[m].value.t = "list" /\ data.members[m].value.n > 0
    THEN Loaded(data.members[
             CHOOSE m \in 1..Len(data.members) :
                /\ data.members[m].value.t = "list" /\ data.members[m].value.n > 0
                /\ \A l \in 1..(m - 1) :
                      ~(data.members[l].value.t = "list" /\ data.members[l].value.n > 0)
         ].value)
    ELSE LoadError("ValueError")

\* a container whose "items" key is read as an empty array: the variant that C9 excludes
load_container_items_emptied(data) ==
    IF HasMember(data, "products") THEN take_products(MemberValue(data, "products"))
    ELSE IF HasMember(data, "data") /\ MemberValue(data, "data").t = "list"
    THEN Loaded(MemberValue(data, "data"))
    ELSE IF HasMember(data, "items") THEN Loaded(Array(<<>>))
    ELSE first_array(data)

\* the isinstance(data, dict) branch: products, data, items, then any array field
load_container(data) ==
    IF HasMember(data, "products") THEN take_products(MemberValue(data, "products"))
    ELSE IF HasMember(data, "data") /\ MemberValue(data, "data").t = "list"
    THEN Loaded(MemberValue(data, "data"))
    ELSE IF HasMember(data, "items") THEN take_products(MemberValue(data, "items"))
    ELSE first_array(data)

\* load_json_file: the products it returns, or the exception it re-raises
load_json_file(file) ==
    IF ~file.exists THEN LoadError("FileNotFoundError")
    ELSE IF ~file.valid THEN LoadError("JSONDecodeError")
    ELSE IF file.data.t = "list" THEN Loaded(file.data)
    ELSE IF file.data.t = "dict" THEN load_container(file.data)
    ELSE LoadError("ValueError")

\* a batch cut down to its first item: the variant that C7 excludes
batch_first_only(products, i, batch_size) ==
    SubSeq(Elements(products), i + 1, i + 1)

\* a slice that takes one item more than the batch size: the variant that C29
\* excludes
batch_slice_overlapping(products, i, batch_size) ==
    SubSeq(Elements(products), i + 1,
           IF i + batch_size + 1 < PyLen(products) THEN i + batch_size + 1
           ELSE PyLen(products))

\* products[i:i + batch_size]
batch_slice(products, i, batch_size) ==
    SubSeq(Elements(products), i + 1,
           IF i + batch_size < PyLen(products) THEN i + batch_size ELSE PyLen(products))

\* (len(products) + batch_size - 1) // batch_size
total_batches(products, batch_size) == (PyLen(products) + batch_size - 1) \div batch_size

\* (i // batch_size) + 1
batch_num(i, batch_size) == (i \div batch_size) + 1

\* save_progress(results, batch_num, store_type): the files written so far and the
\* file of this batch; a write that fails is logged and leaves no file
save_progress(written, results, batch, writable) ==
    IF writable
    THEN Append(written, [batch_num |-> batch, records |-> results])
    ELSE written

\* the counters __init__ sets
NewStats == [total |-> 0, processed |-> 0, successful |-> 0, failed |-> 0]

\* ------------------------------------------------------------------ DatabaseInserter

\* a DatabaseInserter and the tables behind it. connection: "none" (None), "open"
\* or "closed"; rows: the committed rows of all tables, in insertion order;
\* null_key: what the table does with a row whose key column is NULL
NewInserter(null_key) == [connection |-> "none", rows |-> <<>>, null_key |-> null_key]

\* self.connection and self.connection.is_connected()
is_connected(db) == db.connection = "open"

\* connect(): mysql.connector.connect returns a connection, or raises Error and
\* self.connection stays what it was
connect(db, reachable) ==
    IF reachable THEN [db EXCEPT !.connection = "open"] ELSE db

\* disconnect()
disconnect(db) ==
    IF is_connected(db) THEN [db EXCEPT !.connection = "closed"] ELSE db

json_fields == {"ai_recipe_compatibility", "ai_key_selling_points", "ai_diet_compatibility"}

\* one value of the prepared row (lines 107-116)
prepare_value(key, value) ==
    CASE key \in json_fields /\ value.t \in {"list", "dict"} ->
            Str(IF value.t = "list" /\ value.n = 0 THEN "[]" ELSE "<json>")
      [] value.t = "null" -> PyNone
      [] value.t = "bool" -> Num(value.n)
      [] value.t \in {"num", "str"} -> value
      [] OTHER -> Str("<str>")

\* _prepare_insert_data: the converted values and the two timestamps
prepare_insert_data(product_data) ==
    [k \in {"updated_at", "created_at"} |-> Str("<now>")] @@
    [k \in DOMAIN product_data.d |-> prepare_value(k, product_data.d[k])]

\* f"{store_name}_products"
table_name(store_name) == Lower(store_name.s) \o "_products"

\* the key column of a row
KeyOf(insert_data) ==
    IF "product_id" \in DOMAIN insert_data THEN insert_data["product_id"] ELSE PyNone

\* a stored row holds the key of the row being inserted; NULL equals no key
DuplicateKey(row, table, insert_data) ==
    /\ row.table = table
    /\ KeyOf(insert_data).t # "null"
    /\ KeyOf(row.data) = KeyOf(insert_data)

\* INSERT ... ON DUPLICATE KEY UPDATE col = VALUES(col): the row with this key takes
\* the new values, or a new row is added
insert_or_update(rows, table, insert_data) ==
    IF \E r \in 1..Len(rows) : DuplicateKey(rows[r], table, insert_data)
    THEN [r \in 1..Len(rows) |->
            IF DuplicateKey(rows[r], table, insert_data)
            THEN [table |-> table, data |-> insert_data @@ rows[r].data]
            ELSE rows[r]]
    ELSE Append(rows, [table |-> table, data |-> insert_data])

\* cursor.execute and connection.commit. accepted: neither raises Error for a reason
\* of the sink's own; a NULL key is refused where the key column is NOT NULL
execute_commit(db, table, insert_data, accepted) ==
    IF ~accepted \/ (KeyOf(insert_data).t = "null" /\ db.null_key = "rejected")
    THEN [ok |-> FALSE, db |-> db]
    ELSE [ok |-> TRUE,
          db |-> [db EXCEPT !.rows = insert_or_update(db.rows, table, insert_data)]]

\* insert_product from the try statement on: store_name.lower() raises on a store
\* name that is no string; an Error of the sink is answered by rollback and False
insert_product_try(db, product_data, store_name, accepted) ==
    IF store_name.t # "str"
    THEN [raised |-> TRUE, ret |-> FALSE, db |-> db]
    ELSE [raised |-> FALSE,
          ret |-> execute_commit(db, table_name(store_name),
                                 prepare_insert_data(product_data), accepted).ok,
          db |-> execute_commit(db, table_name(store_name),
                                prepare_insert_data(product_data), accepted).db]

\* insert_product(product_data)
insert_product(db, product_data, accepted) ==
    IF ~is_connected(db)
    THEN [raised |-> FALSE, ret |-> FALSE, db |-> db]
    ELSE insert_product_try(db, product_data, Get(product_data, "store_name", Str("")),
                            accepted)

\* a loop that leaves at the first record the sink refuses: the variant that C12
\* excludes
bulk_turn_until_refused(acc, out) ==
    [raised |-> ~out.ret,
     db |-> out.db,
     success_count |-> IF out.ret THEN acc.success_count + 1 ELSE acc.success_count,
     submitted |-> acc.submitted + 1]

\* one turn of the loop of bulk_insert_products: out is what insert_product gave
bulk_turn(acc, out) ==
    [raised |-> out.raised,
     db |-> out.db,
     success_count |-> IF out.ret THEN acc.success_count + 1 ELSE acc.success_count,
     submitted |-> acc.submitted + 1]

RECURSIVE bulk_insert_from(_, _, _, _)
\* the for loop of bulk_insert_products from record k on; an exception leaves it
bulk_insert_from(acc, products, accepted, k) ==
    IF k > Len(products) \/ acc.raised THEN acc
    ELSE bulk_insert_from(
            bulk_turn(acc, insert_product(acc.db, products[k], accepted[k])),
            products, accepted, k + 1)

\* bulk_insert_products(products): the count it returns, the inserter afterwards,
\* and the insert_product calls it made
bulk_insert_products(db, products, accepted) ==
    bulk_insert_from([raised |-> FALSE, db |-> db, success_count |-> 0, submitted |-> 0],
                     products, accepted, 1)

\* ------------------------------------------------------------------ ProductPipeline

\* ProductProcessor.process_batch: what process_product gives for each product, in
\* order
processor_outcomes(products_json, store_type, collab) ==
    [k \in 1..Len(products_json) |-> process_product(products_json[k], store_type, collab)]

\* if result:
IsResult(out) == ~out.raised /\ Truthy(out.ret)

\* ProductProcessor.process_batch(products, store_type): the results it returns
processor_process_batch(outs) ==
    [k \in 1..Len(SelectSeq(outs, IsResult)) |-> SelectSeq(outs, IsResult)[k].ret]

\* a try statement without its finally clause, which disconnects only when nothing
\* was raised: the variant that C30 excludes
store_without_finally(total, outs, inserted) ==
    [connected |-> TRUE,
     raised |-> inserted.raised,
     db |-> IF inserted.raised THEN inserted.db ELSE disconnect(inserted.db),
     outs |-> outs,
     stats |-> [total |-> total, processed |-> Len(processor_process_batch(outs)),
                stored |-> inserted.success_count,
                failed |-> total - inserted.success_count]]

\* process_and_store_products after bulk_insert_products: the finally clause
\* disconnects, and an exception of bulk_insert_products goes on to the caller
store_finally(total, outs, inserted) ==
    [connected |-> TRUE,
     raised |-> inserted.raised,
     db |-> disconnect(inserted.db),
     outs |-> outs,
     stats |-> [total |-> total, processed |-> Len(processor_process_batch(outs)),
                stored |-> inserted.success_count,
                failed |-> total - inserted.success_count]]

\* process_and_store_products once connect() has returned True (lines 159-173)
store_try(db, outs, accepted) ==
    store_finally(Len(outs), outs,
                  bulk_insert_products(db, processor_process_batch(outs), accepted))

\* ProductPipeline.process_and_store_products(products_json, store_type). reachable:
\* connect() succeeds; accepted: the sink's answer to each enhanced product.
\* outs: what its own ProductProcessor made of each product
process_and_store_products(db, products_json, store_type, collab, reachable, accepted) ==
    IF ~reachable
    THEN [connected |-> FALSE, raised |-> FALSE, db |-> connect(db, FALSE), outs |-> <<>>,
          stats |-> [total |-> Len(products_json), processed |-> 0, stored |-> 0,
                     failed |-> 0]]
    ELSE store_try(connect(db, TRUE),
                   processor_outcomes(products_json, store_type, collab), accepted)

\* ------------------------------------------------------------------ files

\* the longest array a file holds
MaxItems == 3

\* the largest batch_size of a process_file call
MaxBatchSize == 2

\* the number of process_file calls made on one LargeJSONProcessor
MaxRuns == 2

ItemIds == <<"p1", "p2", "p3", "p4", "p5">>

\* the k-th payload of a file: "ok" normalizes, "bad" makes the normalizer fail on
\* its price
ItemPayload(kind, k) ==
    Dict([product_id |-> Str(ItemIds[k]), name |-> Str("Milk"),
          price |-> IF kind = "ok" THEN Num(5) ELSE Str("abc")])

ItemsOf(kinds) == [k \in 1..Len(kinds) |-> ItemPayload(kinds[k], k)]

Arrays == {Array(ItemsOf(kinds)) : kinds \in SeqsUpTo({"ok", "bad"}, MaxItems)}

OneItem == Array(ItemsOf(<<"ok">>))

MissingFile == [exists |-> FALSE, valid |-> FALSE, data |-> PyNone]
InvalidFile == [exists |-> TRUE, valid |-> FALSE, data |-> PyNone]
JsonFile(data) == [exists |-> TRUE, valid |-> TRUE, data |-> data]

\* files holding an array: bare, under "items", and under the other keys
ArrayFiles ==
    {JsonFile(a) : a \in Arrays}
    \cup {JsonFile(Object(<<Member("items", a)>>)) : a \in Arrays}
    \cup {JsonFile(Object(<<Member("products", OneItem)>>)),
          JsonFile(Object(<<Member("data", OneItem)>>)),
          JsonFile(Object(<<Member("count", Num(1)), Member("rows", OneItem)>>))}

\* files holding no array: a scalar, objects without a list, and objects whose
\* recognized key holds something else than a list
OtherFiles ==
    {MissingFile, InvalidFile, JsonFile(Num(5)), JsonFile(Object(<<>>)),
     JsonFile(Object(<<Member("count", Num(1))>>)),
     JsonFile(Object(<<Member("rows", Array(<<>>))>>)),
     JsonFile(Object(<<Member("data", Str("ab"))>>)),
     JsonFile(Object(<<Member("products", Num(5))>>)),
     JsonFile(Object(<<Member("products", PyNone)>>)),
     JsonFile(Object(<<Member("products", Str("ab"))>>)),
     JsonFile(Object(<<Member("products", Dict([k |-> Num(1)]))>>)),
     JsonFile(Object(<<Member("items", Str("ab"))>>))}

Files == ArrayFiles \cup OtherFiles

\* the collaborator's behaviour during one process_file call
FileCollabs ==
    {Raises,
     Returns(<<LBRACE>> \o KeyText("ai_main_category") \o StrText("Sadje") \o <<RBRACE>>)}

\* the delay of a process_file call, in seconds: none, and the default
Delays == {0, 2}

\* the seconds process_file sleeps between two batches
BatchPause == 5

\* the arguments of a process_file call
FileCalls ==
    [file : Files, store_type : {Str("lidl")}, batch_size : 1..MaxBatchSize,
     delay : Delays, save_batches : BOOLEAN, save_to_db : BOOLEAN, collab : FileCollabs]

\* ------------------------------------------------------------------ records for the sink

\* the insert_product calls made on one DatabaseInserter
MaxSubmissions == 2

\* the longest list given to bulk_insert_products
MaxBulk == 3

SadjeResponse ==
    Returns(<<LBRACE>> \o KeyText("ai_main_category") \o StrText("Sadje") \o <<RBRACE>>)

MercatorItem(cinv) ==
    Dict([url |-> Str("u"),
          data |-> Dict([cinv |-> cinv, name |-> Str("Milk"), current_price |-> Num(5)])])

\* enriched records as process_product returns them: a Lidl product enriched with
\* the default fields and with the collaborator's, a Mercator product holding the
\* same id, and a Mercator product whose "cinv" is null
EnrichedRecords ==
    {process_product(ItemPayload("ok", 1), Str("lidl"), Raises).ret,
     process_product(ItemPayload("ok", 1), Str("lidl"), SadjeResponse).ret,
     process_product(MercatorItem(Str("p1")), Str("mercator"), Raises).ret,
     process_product(MercatorItem(PyNone), Str("mercator"), Raises).ret}

\* what a table may do with a NULL key: refuse it (NOT NULL) or store it (a unique
\* index holds any number of NULLs)
NullKeys == {"rejected", "stored"}

\* ------------------------------------------------------------------ state

VARIABLES
    enh,         \* the last call of ProductAIEnhancer.enhance_product and its outcome
    proc,        \* the last call of ProductProcessor.process_product and its outcome
    pc,          \* where process_file stands
    runs,        \* the process_file calls made on this LargeJSONProcessor so far
    run,         \* the arguments of the current process_file call
    stats,       \* self.stats
    before,      \* the counters when the current call began
    products,    \* process_file's products
    i,           \* process_file's loop variable: the offset of the current batch
    j,           \* process_batch's loop variable: the index within the batch
    results,     \* process_batch's results
    result,      \* process_batch's result: the outcome of the process_product call
    all_results, \* process_file's all_results
    checkpoints, \* the files save_progress wrote during the current call
    final_file,  \* the file save_final_results wrote during the current call
    calls,       \* the process_product calls made during the current call
    produced,    \* the records those calls returned
    interrupted, \* a KeyboardInterrupt arrived during the current call
    ret,         \* what the current call returned or raised
    trace,       \* the collaborator invocations and the sleeps of the current call
    db,          \* the DatabaseInserter and the tables behind it
    submissions, \* the insert_product calls made on the DatabaseInserter
    bulk,        \* the bulk_insert_products call made on it and its outcome
    norm,        \* the last call of a normalizer and its outcome
    store        \* the process_and_store_products call made on a pipeline and its outcome

callVars == <<enh, proc, submissions, bulk, norm, store>>

\* what a process_file call works on, but for the database
callFileVars == <<pc, runs, run, stats, before, products, i, j, results, result,
                  all_results, checkpoints, final_file, calls, produced, interrupted, ret,
                  trace>>

fileVars == <<callFileVars, db>>

vars == <<enh, proc, pc, runs, run, stats, before, products, i, j, results, result,
          all_results, checkpoints, final_file, calls, produced, interrupted, ret,
          trace, db, submissions, bulk, norm, store>>

NoCall == [done |-> FALSE]
NoFile == [written |-> FALSE]
NoRet == [raised |-> "", returned |-> FALSE]

\* self.db_pipeline is None
NoPipeline == [connection |-> "none", rows |-> <<>>, null_key |-> ""]

\* a LargeJSONProcessor as __init__ leaves it, and no process_file call made yet
InitFile ==
    /\ pc = "Idle"
    /\ runs = 0
    /\ run = NoCall
    /\ stats = NewStats
    /\ before = NewStats
    /\ products = PyNone
    /\ i = 0
    /\ j = 0
    /\ results = <<>>
    /\ result = NoCall
    /\ all_results = <<>>
    /\ checkpoints = <<>>
    /\ final_file = NoFile
    /\ calls = 0
    /\ produced = <<>>
    /\ interrupted = FALSE
    /\ ret = NoRet
    /\ trace = <<>>

\* a call of enhance_product about to be made, with the collaborator's behaviour
InitEnhance ==
    /\ enh \in {[done |-> FALSE, product |-> product, collab |-> collab] :
                  product \in EnhanceProducts, collab \in EnhanceCollabs}
    /\ proc = NoCall
    /\ InitFile
    /\ db = NoPipeline
    /\ submissions = <<>>
    /\ bulk = NoCall
    /\ norm = NoCall
    /\ store = NoCall

\* ProductAIEnhancer.enhance_product(product)
EnhanceProduct ==
    /\ ~enh.done
    /\ "product" \in DOMAIN enh
    /\ enh' = [done |-> TRUE, product |-> enh.product, collab |-> enh.collab,
               out |-> enhance_product(enh.product, enh.collab)]
    /\ UNCHANGED <<proc, submissions, bulk, norm, store>>
    /\ UNCHANGED fileVars

\* a call of process_product about to be made, with the collaborator's behaviour
InitProduct ==
    /\ enh = NoCall
    /\ proc \in {[done |-> FALSE, product_json |-> args[1], store_type |-> args[2],
                  collab |-> collab] :
                   args \in ProductArgs, collab \in ProductCollabs}
    /\ InitFile
    /\ db = NoPipeline
    /\ submissions = <<>>
    /\ bulk = NoCall
    /\ norm = NoCall
    /\ store = NoCall

\* ProductProcessor.process_product(product_json, store_type)
ProcessProduct ==
    /\ ~proc.done
    /\ "product_json" \in DOMAIN proc
    /\ proc' = [done |-> TRUE, product_json |-> proc.product_json,
                store_type |-> proc.store_type, collab |-> proc.collab,
                out |-> process_product(proc.product_json, proc.store_type, proc.collab)]
    /\ UNCHANGED <<enh, submissions, bulk, norm, store>>
    /\ UNCHANGED fileVars

\* process_file after load_json_file: a load error goes to the caller; otherwise
\* stats['total'] is set and the loop begins (lines 221-229)
\* the collaborator is invoked for the item at position k of the file
Invoked(k) == [e |-> "invoke", k |-> k]

\* time.sleep(seconds) has returned
Slept(seconds) == [e |-> "sleep", k |-> seconds]

\* the positions of a batch's items that are true: [r for r in batch if r]
TruePositions(batch) == SelectSeq([k \in 1..Len(batch) |-> k], LAMBDA k : Truthy(batch[k]))

\* the invocations the pipeline's own processor made, given what it made of each
\* true item of the batch that starts at offset
PipelineInvocations(outs, batch, offset) ==
    [m \in 1..Len(SelectSeq([n \in 1..Len(outs) |-> n], LAMBDA n : outs[n].called)) |->
        Invoked(offset + TruePositions(batch)[
                   SelectSeq([n \in 1..Len(outs) |-> n], LAMBDA n : outs[n].called)[m]])]

StartLoaded(call, loaded) ==
    /\ runs' = runs + 1
    /\ run' = call
    /\ before' = stats
    /\ i' = 0
    /\ j' = 0
    /\ results' = <<>>
    /\ result' = NoCall
    /\ all_results' = <<>>
    /\ checkpoints' = <<>>
    /\ final_file' = NoFile
    /\ calls' = 0
    /\ produced' = <<>>
    /\ interrupted' = FALSE
    /\ trace' = <<>>
    /\ db' = db
    /\ IF loaded.exc # ""
       THEN /\ pc' = "Raised"
            /\ ret' = [raised |-> loaded.exc, returned |-> FALSE]
            /\ products' = PyNone
            /\ stats' = stats
       ELSE /\ pc' = "LoopTop"
            /\ ret' = NoRet
            /\ products' = loaded.products
            /\ stats' = [stats EXCEPT !.total = PyLen(loaded.products)]

\* LargeJSONProcessor.process_file(json_file_path, store_type, batch_size, ...) is
\* called on a new processor
StartFile ==
    /\ pc = "Idle"
    /\ runs = 0
    /\ \E call \in FileCalls : StartLoaded(call, load_json_file(call.file))
    /\ UNCHANGED callVars

\* the later calls on a processor: made without delay and without batch files
AgainCalls == {call \in FileCalls : call.delay = 0 /\ ~call.save_batches}

\* process_file is called again on a processor that has processed a file before
StartAgain ==
    /\ pc = "Idle"
    /\ runs >= 1
    /\ runs < MaxRuns
    /\ \E call \in AgainCalls : StartLoaded(call, load_json_file(call.file))
    /\ UNCHANGED callVars

\* the for statement of process_file (lines 232-236): the next batch is cut, which
\* fails on products that cannot be sliced, or the loop is over
LoopTop ==
    /\ pc = "LoopTop"
    /\ IF i < PyLen(products)
       THEN IF products.t = "dict"
            THEN /\ pc' = "Raised"
                 /\ ret' = [raised |-> "TypeError", returned |-> FALSE]
                 /\ UNCHANGED <<j, results>>
            ELSE /\ pc' = "Call"
                 /\ j' = 0
                 /\ results' = <<>>
                 /\ ret' = ret
       ELSE /\ pc' = "Finalizing"
            /\ UNCHANGED <<j, results, ret>>
    /\ UNCHANGED <<trace, db, runs, run, stats, before, products, i, result, all_results,
                   checkpoints, final_file, calls, produced, interrupted>>
    /\ UNCHANGED callVars

\* process_batch has the outcome of process_product in hand (line 145)
CallReturned(out) ==
    /\ result' = out
    /\ trace' = IF out.called THEN Append(trace, Invoked(i + j + 1)) ELSE trace
    /\ calls' = calls + 1
    /\ produced' = IF ~out.raised /\ Truthy(out.ret) THEN Append(produced, out.ret)
                   ELSE produced
    /\ pc' = "Record"

\* process_batch, lines 139-145: the next item of the batch goes to process_product
CallProcessor ==
    /\ pc = "Call"
    /\ j < Len(batch_slice(products, i, run.batch_size))
    /\ CallReturned(process_product(batch_slice(products, i, run.batch_size)[j + 1],
                                    run.store_type, run.collab))
    /\ UNCHANGED <<db, runs, run, stats, before, products, i, j, results, all_results,
                   checkpoints, final_file, interrupted, ret>>
    /\ UNCHANGED callVars

\* the statement of the loop body raises an exception before an outcome is in
\* hand: the case the except clause of process_batch is there for (line 168)
ProcessorRaises ==
    /\ pc = "Call"
    /\ j < Len(batch_slice(products, i, run.batch_size))
    /\ CallReturned([raised |-> TRUE, ret |-> PyNone, normalizer |-> "", called |-> FALSE])
    /\ UNCHANGED <<db, runs, run, stats, before, products, i, j, results, all_results,
                   checkpoints, final_file, interrupted, ret>>
    /\ UNCHANGED callVars

\* a process_batch whose except clause counts the item and gives up the batch:
\* the variant that C19 excludes
RecordOutcomeLeavingBatch ==
    /\ pc = "Record"
    /\ IF result.raised
       THEN /\ stats' = [stats EXCEPT !.failed = @ + 1]
            /\ results' = results
            /\ j' = j
            /\ pc' = "Extend"
       ELSE IF Truthy(result.ret)
       THEN /\ stats' = [stats EXCEPT !.successful = @ + 1]
            /\ results' = Append(results, result.ret)
            /\ j' = j
            /\ pc' = "Count"
       ELSE /\ stats' = [stats EXCEPT !.failed = @ + 1]
            /\ results' = results
            /\ j' = j
            /\ pc' = "Count"
    /\ UNCHANGED <<trace, db, runs, run, before, products, i, result, all_results, checkpoints,
                   final_file, calls, produced, interrupted, ret>>
    /\ UNCHANGED callVars

\* process_batch, lines 147-153 and 168-172: a record is appended and counted as
\* successful, None is counted as failed, and an exception is counted as failed and
\* skips the rest of the loop body
RecordOutcome ==
    /\ pc = "Record"
    /\ IF result.raised
       THEN /\ stats' = [stats EXCEPT !.failed = @ + 1]
            /\ results' = results
            /\ j' = j + 1
            /\ pc' = "Call"
       ELSE IF Truthy(result.ret)
       THEN /\ stats' = [stats EXCEPT !.successful = @ + 1]
            /\ results' = Append(results, result.ret)
            /\ j' = j
            /\ pc' = "Count"
       ELSE /\ stats' = [stats EXCEPT !.failed = @ + 1]
            /\ results' = results
            /\ j' = j
            /\ pc' = "Count"
    /\ UNCHANGED <<trace, db, runs, run, before, products, i, result, all_results, checkpoints,
                   final_file, calls, produced, interrupted, ret>>
    /\ UNCHANGED callVars

\* process_batch, lines 158-166: the item is counted as processed, then the
\* inter-item sleep when there is a delay
CountProcessed ==
    /\ pc = "Count"
    /\ stats' = [stats EXCEPT !.processed = @ + 1]
    /\ trace' = IF run.delay > 0 THEN Append(trace, Slept(run.delay)) ELSE trace
    /\ j' = j + 1
    /\ pc' = "Call"
    /\ UNCHANGED <<db, runs, run, before, products, i, results, result, all_results,
                   checkpoints, final_file, calls, produced, interrupted, ret>>
    /\ UNCHANGED callVars

\* process_batch returns its results (line 174) and process_file binds them (line 238)
BatchReturn ==
    /\ pc = "Call"
    /\ j = Len(batch_slice(products, i, run.batch_size))
    /\ pc' = "Extend"
    /\ UNCHANGED <<trace, db, runs, run, stats, before, products, i, j, results, result,
                   all_results, checkpoints, final_file, calls, produced, interrupted, ret>>
    /\ UNCHANGED callVars

\* all_results.extend(batch_results) (line 239)
Extend ==
    /\ pc = "Extend"
    /\ all_results' = all_results \o results
    /\ pc' = "Save"
    /\ UNCHANGED <<trace, db, runs, run, stats, before, products, i, j, results, result,
                   checkpoints, final_file, calls, produced, interrupted, ret>>
    /\ UNCHANGED callVars

\* process_file has what process_and_store_products gave or raised (lines 248-253)
StoredBatch(out) ==
    /\ db' = out.db
    /\ trace' = trace \o PipelineInvocations(out.outs, batch_slice(products, i, run.batch_size), i)

\* lines 242-256: save_progress writes the batch's records when save_batches is set
\* and the batch has any; with save_to_db, a database pipeline and records in the
\* batch, the batch's items that are true go to process_and_store_products; the
\* progress printout changes nothing
SaveBatch ==
    /\ pc = "Save"
    /\ IF run.save_to_db /\ db # NoPipeline /\ results # <<>>
       THEN \E reachable \in BOOLEAN, accepted \in [1..MaxBatchSize -> BOOLEAN] :
               StoredBatch(process_and_store_products(
                              db, SelectSeq(batch_slice(products, i, run.batch_size), Truthy),
                              run.store_type, run.collab, reachable, accepted))
       ELSE db' = db /\ trace' = trace
    /\ IF run.save_batches /\ results # <<>>
       THEN \E writable \in BOOLEAN :
               checkpoints' = save_progress(checkpoints, results,
                                            batch_num(i, run.batch_size), writable)
       ELSE checkpoints' = checkpoints
    /\ IF batch_num(i, run.batch_size) < total_batches(products, run.batch_size)
       THEN pc' = "Pause" /\ i' = i
       ELSE pc' = "LoopTop" /\ i' = i + run.batch_size
    /\ UNCHANGED <<runs, run, stats, before, products, j, results, result, all_results,
                   final_file, calls, produced, interrupted, ret>>
    /\ UNCHANGED callVars

\* time.sleep(5) between two batches (lines 259-260), then the next iteration
Pause ==
    /\ pc = "Pause"
    /\ trace' = Append(trace, Slept(BatchPause))
    /\ pc' = "LoopTop"
    /\ i' = i + run.batch_size
    /\ UNCHANGED <<db, runs, run, stats, before, products, j, results, result, all_results,
                   checkpoints, final_file, calls, produced, interrupted, ret>>
    /\ UNCHANGED callVars

\* a KeyboardInterrupt inside the try statement of the loop (lines 236-260, and
\* process_batch, whose except Exception does not catch it): the except clause at
\* line 262 breaks out of the loop; process_batch's results are dropped with its frame
Interrupt ==
    /\ pc \in {"Call", "Record", "Count", "Extend", "Save", "Pause"}
    /\ interrupted' = TRUE
    /\ pc' = "Finalizing"
    /\ UNCHANGED <<trace, db, runs, run, stats, before, products, i, j, results, result,
                   all_results, checkpoints, final_file, calls, produced, ret>>
    /\ UNCHANGED callVars

\* a KeyboardInterrupt at the for statement, before the try is entered (lines
\* 232-234): it leaves process_file
InterruptOutsideTry ==
    /\ pc = "LoopTop"
    /\ i < PyLen(products)
    /\ interrupted' = TRUE
    /\ pc' = "Raised"
    /\ ret' = [raised |-> "KeyboardInterrupt", returned |-> FALSE]
    /\ UNCHANGED <<trace, db, runs, run, stats, before, products, i, j, results, result,
                   all_results, checkpoints, final_file, calls, produced>>
    /\ UNCHANGED callVars

\* lines 270-283: save_final_results writes the final file, the report is printed
\* (the clock has advanced since start_time), and process_file returns
Finalize ==
    /\ pc = "Finalizing"
    /\ final_file' = [written |-> TRUE, total_products |-> Len(all_results),
                      products |-> all_results, processing_stats |-> stats]
    /\ ret' = [raised |-> "", returned |-> TRUE, stats |-> stats,
               results |-> all_results, output_file |-> "enhanced"]
    /\ pc' = "Done"
    /\ UNCHANGED <<trace, db, runs, run, stats, before, products, i, j, results, result,
                   all_results, checkpoints, calls, produced, interrupted>>
    /\ UNCHANGED callVars

\* the caller has the return value or the exception of process_file: the call's
\* frame is gone, the processor keeps its counters
BackToCaller ==
    /\ pc \in {"Done", "Raised"}
    /\ pc' = "Idle"
    /\ run' = NoCall
    /\ before' = stats
    /\ products' = PyNone
    /\ i' = 0
    /\ j' = 0
    /\ results' = <<>>
    /\ result' = NoCall
    /\ all_results' = <<>>
    /\ checkpoints' = <<>>
    /\ final_file' = NoFile
    /\ calls' = 0
    /\ produced' = <<>>
    /\ interrupted' = FALSE
    /\ ret' = NoRet
    /\ trace' = <<>>
    /\ UNCHANGED <<db, runs, stats>>
    /\ UNCHANGED callVars

\* a new DatabaseInserter in front of empty tables
InitInserter ==
    /\ enh = NoCall
    /\ proc = NoCall
    /\ InitFile
    /\ db \in {NewInserter(null_key) : null_key \in NullKeys}
    /\ submissions = <<>>
    /\ bulk = NoCall
    /\ norm = NoCall
    /\ store = NoCall

\* DatabaseInserter.connect()
Connect ==
    /\ ~is_connected(db)
    /\ \E reachable \in BOOLEAN : db' = connect(db, reachable)
    /\ UNCHANGED <<enh, proc, submissions, bulk, norm, store>>
    /\ UNCHANGED callFileVars

\* DatabaseInserter.disconnect()
Disconnect ==
    /\ is_connected(db)
    /\ db' = disconnect(db)
    /\ UNCHANGED <<enh, proc, submissions, bulk, norm, store>>
    /\ UNCHANGED callFileVars

\* insert_product has returned out
Submitted(product_data, accepted, out) ==
    /\ db' = out.db
    /\ submissions' = Append(submissions,
                             [product_data |-> product_data, accepted |-> accepted,
                              connected |-> is_connected(db), raised |-> out.raised,
                              ret |-> out.ret])

\* DatabaseInserter.insert_product(product_data)
InsertProduct ==
    /\ Len(submissions) < MaxSubmissions
    /\ \E product_data \in EnrichedRecords, accepted \in BOOLEAN :
          Submitted(product_data, accepted, insert_product(db, product_data, accepted))
    /\ UNCHANGED <<enh, proc, bulk, norm, store>>
    /\ UNCHANGED callFileVars

\* bulk_insert_products has returned out
BulkReturned(out) ==
    /\ db' = out.db
    /\ bulk' = [done |-> TRUE, products |-> bulk.products, accepted |-> bulk.accepted,
                before |-> db, raised |-> out.raised,
                success_count |-> out.success_count, submitted |-> out.submitted]

\* DatabaseInserter.bulk_insert_products(products)
BulkInsertProducts ==
    /\ ~bulk.done
    /\ "products" \in DOMAIN bulk
    /\ BulkReturned(bulk_insert_products(db, bulk.products, bulk.accepted))
    /\ UNCHANGED <<enh, proc, submissions, norm, store>>
    /\ UNCHANGED callFileVars

NextInserter ==
    \/ Connect
    \/ Disconnect
    \/ InsertProduct

\* calls on one DatabaseInserter: connect, disconnect and insert_product
SpecInserter == InitInserter /\ [][NextInserter]_vars

\* a new DatabaseInserter and a bulk_insert_products call about to be made on it,
\* with the sink's answer to each record
InitBulk ==
    /\ enh = NoCall
    /\ proc = NoCall
    /\ InitFile
    /\ db \in {NewInserter(null_key) : null_key \in NullKeys}
    /\ submissions = <<>>
    /\ bulk \in {[done |-> FALSE, products |-> records, accepted |-> accepted] :
                   records \in SeqsUpTo(EnrichedRecords, MaxBulk),
                   accepted \in [1..MaxBulk -> BOOLEAN]}
    /\ norm = NoCall
    /\ store = NoCall

NextBulk ==
    \/ Connect
    \/ Disconnect
    \/ BulkInsertProducts

\* connect, one bulk_insert_products call, disconnect
SpecBulk == InitBulk /\ [][NextBulk]_vars

\* a call of a normalizer about to be made
InitNormalize ==
    /\ enh = NoCall
    /\ proc = NoCall
    /\ InitFile
    /\ db = NoPipeline
    /\ submissions = <<>>
    /\ bulk = NoCall
    /\ norm \in {[done |-> FALSE, normalizer |-> call.normalizer, data |-> call.data] :
                   call \in NormalizerCalls}
    /\ store = NoCall

\* ProductNormalizer.normalize_<store>_product(data, store_name)
NormalizeProduct ==
    /\ ~norm.done
    /\ "data" \in DOMAIN norm
    /\ norm' = [done |-> TRUE, normalizer |-> norm.normalizer, data |-> norm.data,
                out |-> run_normalizer(norm.normalizer, norm.data)]
    /\ UNCHANGED <<enh, proc, submissions, bulk, store>>
    /\ UNCHANGED fileVars

NextNormalize == NormalizeProduct

\* one call of one of the five normalizers
SpecNormalize == InitNormalize /\ [][NextNormalize]_vars

NextEnhance == EnhanceProduct
SpecEnhance == InitEnhance /\ [][NextEnhance]_vars

NextProduct == ProcessProduct
SpecProduct == InitProduct /\ [][NextProduct]_vars

\* a new LargeJSONProcessor built without a db_config: its db_pipeline is None
InitProcessor ==
    /\ enh = NoCall
    /\ proc = NoCall
    /\ InitFile
    /\ db = NoPipeline
    /\ submissions = <<>>
    /\ bulk = NoCall
    /\ norm = NoCall
    /\ store = NoCall

NextFile ==
    \/ StartFile
    \/ LoopTop
    \/ CallProcessor
    \/ RecordOutcome
    \/ CountProcessed
    \/ BatchReturn
    \/ Extend
    \/ SaveBatch
    \/ Pause
    \/ Interrupt
    \/ InterruptOutsideTry
    \/ Finalize

\* one process_file call on a new processor
SpecFile == InitProcessor /\ [][NextFile]_vars

\* the statements of process_file and process_batch: the interpreter runs the
\* next one whenever there is one; a KeyboardInterrupt is not one of them
Statement ==
    \/ LoopTop
    \/ CallProcessor
    \/ RecordOutcome
    \/ CountProcessed
    \/ BatchReturn
    \/ Extend
    \/ SaveBatch
    \/ Pause
    \/ Finalize

\* one process_file call that is not left waiting: a sleep ends, and the
\* collaborator and the disk answer
SpecFileFair == SpecFile /\ WF_vars(Statement)

NextGuard ==
    \/ NextFile
    \/ ProcessorRaises

\* one process_file call in which the loop body of process_batch may raise
SpecGuard == InitProcessor /\ [][NextGuard]_vars

\* the products of a process_and_store_products call: at most MaxStored payloads
MaxStored == 2

StoredPayloads == {ItemPayload("ok", 1), ItemPayload("ok", 2), ItemPayload("bad", 3)}

\* the collaborator during the call: it raises, it answers with a category, or it
\* answers with a store_name that is a number
StoreCollabs ==
    {Raises,
     Returns(<<LBRACE>> \o KeyText("ai_main_category") \o StrText("Sadje") \o <<RBRACE>>),
     Returns(<<LBRACE>> \o KeyText("store_name") \o <<"1", RBRACE>>)}

\* a new ProductPipeline and a process_and_store_products call about to be made on
\* it, with the sink's answers
InitPipeline ==
    /\ enh = NoCall
    /\ proc = NoCall
    /\ InitFile
    /\ db \in {NewInserter(null_key) : null_key \in NullKeys}
    /\ submissions = <<>>
    /\ bulk = NoCall
    /\ norm = NoCall
    /\ store \in {[done |-> FALSE, products_json |-> products_json, collab |-> collab,
                    reachable |-> reachable, accepted |-> accepted] :
                     products_json \in SeqsUpTo(StoredPayloads, MaxStored),
                     collab \in StoreCollabs, reachable \in BOOLEAN,
                     accepted \in [1..MaxStored -> BOOLEAN]}

\* process_and_store_products has returned or raised
StoreReturned(out) ==
    /\ db' = out.db
    /\ store' = [done |-> TRUE, products_json |-> store.products_json,
                 collab |-> store.collab, reachable |-> store.reachable,
                 accepted |-> store.accepted, connected |-> out.connected,
                 raised |-> out.raised, stats |-> out.stats]

\* ProductPipeline.process_and_store_products(products_json, "lidl")
StoreProducts ==
    /\ ~store.done
    /\ "products_json" \in DOMAIN store
    /\ StoreReturned(process_and_store_products(db, store.products_json, Str("lidl"),
                                                store.collab, store.reachable,
                                                store.accepted))
    /\ UNCHANGED <<enh, proc, submissions, bulk, norm>>
    /\ UNCHANGED callFileVars

NextPipeline == StoreProducts

\* one process_and_store_products call on a new ProductPipeline
SpecPipeline == InitPipeline /\ [][NextPipeline]_vars

\* a new LargeJSONProcessor built with a db_config: its db_pipeline holds a
\* DatabaseInserter
InitStore ==
    /\ enh = NoCall
    /\ proc = NoCall
    /\ InitFile
    /\ db \in {NewInserter(null_key) : null_key \in NullKeys}
    /\ submissions = <<>>
    /\ bulk = NoCall
    /\ norm = NoCall
    /\ store = NoCall

\* one process_file call on a new processor that has a database pipeline
SpecStore == InitStore /\ [][NextFile]_vars

NextRuns ==
    \/ NextFile
    \/ BackToCaller
    \/ StartAgain

\* process_file calls one after the other on the same processor
SpecRuns == InitProcessor /\ [][NextRuns]_vars

\* ------------------------------------------------------------------ process_product

\* the names of the AI-derived fields: the keys of the default field set
AIFieldNames == DOMAIN get_default_ai_fields(ProductData(Str("p1"))).d

\* C1: whatever the payload, the store identifier and the collaborator's behaviour,
\* process_product lets no exception escape and returns None or an enriched record,
\* a dict with every canonical key and the AI category.
C1_RecordOrNothing ==
    proc.done =>
        /\ ~proc.out.raised
        /\ \/ proc.out.ret = PyNone
           \/ /\ proc.out.ret.t = "dict"
              /\ CanonicalKeys \cup {"ai_main_category"} \subseteq DOMAIN proc.out.ret.d

\* C1: a call whose try block raised (a failing payload for a supported store) and
\* that returned None all the same
C1_Witness ==
    /\ proc.done
    /\ proc.store_type = Str("lidl")
    /\ process_product_body(proc.product_json, proc.store_type, proc.collab).raised
    /\ ~proc.out.raised
    /\ proc.out.ret = PyNone

\* C2: every record process_product returns holds every AI-derived field of the
\* default field set, whatever object the collaborator returned.
C2_StructurallyComplete ==
    (proc.done /\ proc.out.ret # PyNone) => AIFieldNames \subseteq DOMAIN proc.out.ret.d

\* C3 as stated: for a store identifier that is not literally one of the five,
\* process_product returns None, runs no normalizer and does not call the collaborator.
C3_LiteralSet ==
    (proc.done /\ ~(proc.store_type.t = "str" /\ proc.store_type.s \in SupportedStores)) =>
        /\ proc.out.ret = PyNone
        /\ proc.out.normalizer = ""
        /\ ~proc.out.called

\* C3 amended: for a store identifier that is no string, or whose lower-cased form is
\* outside the five, process_product returns None without raising, runs no normalizer
\* and does not call the collaborator.
C3_UnknownStore ==
    (proc.done /\ (proc.store_type.t # "str"
                   \/ Lower(proc.store_type.s) \notin SupportedStores)) =>
        /\ ~proc.out.raised
        /\ proc.out.ret = PyNone
        /\ proc.out.normalizer = ""
        /\ ~proc.out.called

\* C3: a well-formed payload sent with the identifier "unknown-store", the
\* collaborator ready to answer: None, and nothing was run
C3_Witness ==
    /\ proc.done
    /\ proc.store_type = Str("unknown-store")
    /\ proc.product_json.t = "dict"
    /\ ~proc.collab.raises
    /\ proc.out.ret = PyNone
    /\ proc.out.normalizer = ""
    /\ ~proc.out.called

\* ------------------------------------------------------------------ enhance_product

\* C4: whatever enhance_product returns has an ai_main_category of the vocabulary,
\* and on the parsed path a category that the collaborator's object lacks or that is
\* outside the vocabulary has become the sentinel "Drugo".
C4_CategoryClosure ==
    (enh.done /\ ~enh.out.raised) =>
        /\ Get(enh.out.fields, "ai_main_category", PyNone).t = "str"
        /\ Get(enh.out.fields, "ai_main_category", PyNone).s \in UNIVERSAL_CATEGORIES
        /\ (/\ enh.out.path = "parsed"
            /\ ~(/\ Get(JsonLoads(extract_json_text(enh.collab.text)).val,
                         "ai_main_category", PyNone).t = "str"
                 /\ Get(JsonLoads(extract_json_text(enh.collab.text)).val,
                         "ai_main_category", PyNone).s \in UNIVERSAL_CATEGORIES))
           => Get(enh.out.fields, "ai_main_category", PyNone) = Str("Drugo")

\* C4: the collaborator's object named the category "Bogus" and the parsed path
\* returned "Drugo"
C4_Witness ==
    /\ enh.done
    /\ enh.out.path = "parsed"
    /\ Get(JsonLoads(extract_json_text(enh.collab.text)).val,
           "ai_main_category", PyNone) = Str("Bogus")
    /\ Get(enh.out.fields, "ai_main_category", PyNone) = Str("Drugo")

\* C5: on a canonical record enhance_product never raises, and when the collaborator
\* raises, the response lacks "{" or "}", or the extracted text does not parse, it
\* returns the full default field set.
C5_DefaultOnFailure ==
    enh.done =>
        /\ ~enh.out.raised
        /\ (\/ enh.collab.raises
            \/ ~HasBraces(enh.collab.text)
            \/ ~JsonLoads(extract_json_text(enh.collab.text)).ok)
           => enh.out.fields = get_default_ai_fields(enh.product)

\* C5: a response with both braces whose extracted text does not parse, answered with
\* the default field set
C5_Witness ==
    /\ enh.done
    /\ ~enh.collab.raises
    /\ HasBraces(enh.collab.text)
    /\ ~JsonLoads(extract_json_text(enh.collab.text)).ok
    /\ ~enh.out.raised
    /\ enh.out.fields = get_default_ai_fields(enh.product)

\* C6: when the response from its first "{" to its last "}" is a valid JSON object,
\* enhance_product takes the parsed path and returns that object's fields (category
\* checked, unit price added), also when a string value holds "//" or "/*".
C6_ValidObjectReturned ==
    (/\ enh.done
     /\ ~enh.collab.raises
     /\ HasBraces(enh.collab.text)
     /\ JsonLoads(RawObjectText(enh.collab.text)).ok) =>
        /\ enh.out.path = "parsed"
        /\ enh.out.fields =
               validate_ai_data(JsonLoads(RawObjectText(enh.collab.text)).val, enh.product)

\* ------------------------------------------------------------------ process_file

\* the file holds a JSON array, bare or under the key "items"
HoldsArray(file) ==
    /\ file.exists
    /\ file.valid
    /\ \/ file.data.t = "list"
       \/ /\ file.data.t = "dict"
          /\ Len(file.data.members) = 1
          /\ file.data.members[1].key = "items"
          /\ file.data.members[1].value.t = "list"

\* that array
FileArray(file) ==
    IF file.data.t = "list" THEN file.data ELSE file.data.members[1].value

\* the items at the odd indices 1, 3, ... (counted from 0) fail normalization, the
\* others normalize
OddIndexedFail(array) ==
    \A k \in 1..array.n :
        array.items[k] = ItemPayload(IF k % 2 = 1 THEN "ok" ELSE "bad", k)

C8_InterruptKeepsRecords ==
    interrupted =>
        /\ pc \in {"Finalizing", "Done"}
        /\ pc = "Done" =>
              \A k \in 1..Len(produced) :
                  \E m \in 1..Len(ret.results) : ret.results[m] = produced[k]

RECURSIVE RecordsOf(_, _, _)
\* the records of the items that process_product turns into one, in input order
RecordsOf(items, store_type, collab) ==
    IF items = <<>> THEN <<>>
    ELSE (IF Truthy(process_product(Head(items), store_type, collab).ret)
          THEN <<process_product(Head(items), store_type, collab).ret>>
          ELSE <<>>)
         \o RecordsOf(Tail(items), store_type, collab)

\* C9: whether the file holds the array bare or under "items", an uninterrupted
\* process_file call works on that same array: it returns the records of its items,
\* total is its length, and processed, successful and failed grow by the numbers of
\* its items, of its records and of its other items.
C9_LoadFlexibility ==
    (/\ pc = "Done"
     /\ ~interrupted
     /\ HoldsArray(run.file)) =>
        /\ products = FileArray(run.file)
        /\ ret.results = RecordsOf(FileArray(run.file).items, run.store_type, run.collab)
        /\ ret.stats.total = FileArray(run.file).n
        /\ ret.stats.processed - before.processed = FileArray(run.file).n
        /\ ret.stats.successful - before.successful = Len(ret.results)
        /\ ret.stats.failed - before.failed = FileArray(run.file).n - Len(ret.results)

\* C9: a call on a file with two or more items under "items" has returned records
C9_Witness ==
    /\ pc = "Done"
    /\ ~interrupted
    /\ HoldsArray(run.file)
    /\ run.file.data.t = "dict"
    /\ FileArray(run.file).n >= 2
    /\ Len(ret.results) >= 1
    /\ ret.results = RecordsOf(FileArray(run.file).items, run.store_type, run.collab)

\* the file is missing, is not valid JSON, or holds no list at all: a scalar, or an
\* object none of whose fields is a list
NoProductArray(file) ==
    \/ ~file.exists
    \/ ~file.valid
    \/ /\ file.data.t # "list"
       /\ \/ file.data.t # "dict"
          \/ \A m \in 1..Len(file.data.members) : file.data.members[m].value.t # "list"

\* C10: a process_file call on such a file raises before the batch starts: from its
\* first step on the call has raised, no process_product call was made, no checkpoint
\* and no final file was written, and the counters are those from before the call.
C10_LoadFailureIsFatal ==
    (pc # "Idle" /\ NoProductArray(run.file)) =>
        /\ pc = "Raised"
        /\ calls = 0
        /\ checkpoints = <<>>
        /\ ~final_file.written
        /\ stats = before

\* ------------------------------------------------------------------ DatabaseInserter

\* the rows of a table that hold a key
RowsWithKey(rows, table, key) ==
    {r \in 1..Len(rows) : rows[r].table = table /\ KeyOf(rows[r].data) = key}

\* the table and the key of an enriched record
TableOf(product_data) == table_name(Get(product_data, "store_name", Str("")))
ProductIdOf(product_data) == Get(product_data, "product_id", PyNone)

\* C11: when the same enriched record has been given to insert_product twice on an
\* open connection, and the sink had no failure of its own either time, the table
\* of its store holds exactly one row with its product_id and both calls returned
\* True.
C11_IdempotentUpsert ==
    \A a \in 1..Len(submissions), b \in 1..Len(submissions) :
       (/\ a < b
        /\ submissions[a].product_data = submissions[b].product_data
        /\ submissions[a].connected /\ submissions[b].connected
        /\ submissions[a].accepted /\ submissions[b].accepted)
       => /\ Cardinality(RowsWithKey(db.rows, TableOf(submissions[a].product_data),
                                     ProductIdOf(submissions[a].product_data))) = 1
          /\ submissions[a].ret /\ submissions[b].ret

\* the sink refuses the k-th record of the bulk_insert_products call
Refused(k) ==
    \/ ~bulk.accepted[k]
    \/ ProductIdOf(bulk.products[k]).t = "null" /\ db.null_key = "rejected"

\* the records of the bulk_insert_products call that the sink took
Taken == {k \in 1..Len(bulk.products) : is_connected(bulk.before) /\ ~Refused(k)}

ProductDataFields == DOMAIN ProductData(Str(""))

\* C13: whatever the payload, a normalizer lets no exception out and returns None
\* or a ProductData that has every field of the dataclass and carries the store
\* name it was called with.
C13_RecordOrFailure ==
    norm.done =>
       \/ norm.out = PyNone
       \/ /\ norm.out.t = "ProductData"
          /\ DOMAIN norm.out = ProductDataFields
          /\ norm.out.store_name = Str(norm.normalizer)

\* the Mercator normalizer was given an object whose price cannot be converted
\* and returned None
C13_Witness ==
    /\ norm.done
    /\ norm.normalizer = "mercator"
    /\ IsDict(norm.data)
    /\ IsDict(Get(norm.data, "data", PyNone))
    /\ Get(Get(norm.data, "data", PyNone), "current_price", PyNone) = Str("abc")
    /\ norm.out = PyNone

\* the members of an object without those that are null
DropNulls(dict) ==
    Dict([k \in DOMAIN dict.d |-> IF dict.d[k].t = "null" THEN Absent ELSE dict.d[k]])

\* a payload without its null fields, those of its nested objects included
WithoutNulls(data) ==
    Dict([k \in DOMAIN data.d |->
            IF data.d[k].t = "null" THEN Absent
            ELSE IF data.d[k].t = "dict" THEN DropNulls(data.d[k])
            ELSE data.d[k]])

\* C14: a payload that normalizes to a record once its null fields are left out
\* normalizes to the same record with them: each null field is replaced by the
\* default an absent field gets, and the normalizer does not fail.
C14_NullDegradesToDefault ==
    (/\ norm.done
     /\ IsDict(norm.data)
     /\ run_normalizer(norm.normalizer, WithoutNulls(norm.data)).t = "ProductData")
    => /\ norm.out # PyNone
       /\ norm.out = run_normalizer(norm.normalizer, WithoutNulls(norm.data))

\* ------------------------------------------------------------------ pacing

\* the places of the trace where the collaborator is invoked
Invocations == {n \in 1..Len(trace) : trace[n].e = "invoke"}

\* C15: during a process_file call the collaborator is invoked at most once for
\* each item of the file, whatever the options, the database pipeline and the
\* collaborator's answers.
C15_OncePerItem ==
    \A a \in Invocations, b \in Invocations : a < b => trace[a].k # trace[b].k

\* two invocations with no invocation between them
Consecutive(a, b) ==
    /\ a \in Invocations /\ b \in Invocations /\ a < b
    /\ \A c \in (a + 1)..(b - 1) : c \notin Invocations

\* the sleeps of BatchPause seconds made so far
Pauses == {n \in 1..Len(trace) : trace[n] = Slept(BatchPause)}

\* C16: during a process_file call with a delay, a sleep of the delay lies between
\* any two consecutive invocations of the collaborator; the pause of BatchPause
\* seconds has been made once for each batch completed when another batch follows, and
\* a run that was not interrupted ends with one pause fewer than it has batches.
C16_Pacing ==
    (pc # "Idle" /\ products # PyNone) =>
       /\ run.delay > 0 =>
             \A a \in 1..Len(trace), b \in 1..Len(trace) :
                Consecutive(a, b) => \E c \in (a + 1)..(b - 1) : trace[c] = Slept(run.delay)
       /\ (pc = "LoopTop" /\ i < PyLen(products)) =>
             Cardinality(Pauses) = batch_num(i, run.batch_size) - 1
       /\ (pc \in {"Finalizing", "Done"} /\ ~interrupted /\ PyLen(products) > 0) =>
             Cardinality(Pauses) = total_batches(products, run.batch_size) - 1

\* ------------------------------------------------------------------ checkpoints

\* a record is in one of the batch files written so far
Persisted(record) ==
    \E c \in 1..Len(checkpoints) :
       \E n \in 1..Len(checkpoints[c].records) : checkpoints[c].records[n] = record

\* the position in the file of the item a record was made from
ItemOf(record) ==
    CHOOSE k \in 1..Len(ItemIds) : Get(record, "product_id", PyNone) = Str(ItemIds[k])

\* C17: with save_batches, every record process_product has returned during the
\* call and that is in no batch file yet comes from an item of the batch in
\* progress: the records of a batch are in its file before an item of the next
\* batch is processed.
C17_OneBatchAtRisk ==
    (pc # "Idle" /\ products # PyNone /\ run.save_batches) =>
       \A n \in 1..Len(produced) :
          ~Persisted(produced[n]) =>
             batch_num(ItemOf(produced[n]) - 1, run.batch_size)
                = batch_num(i, run.batch_size)

\* ------------------------------------------------------------------ termination

\* C18: once load_json_file has returned the products, the call gets to its final
\* save and from there returns its result, for every file, batch size and outcome
\* of the items, interrupted or not.
C18_LoadedRunsFinish ==
    /\ (pc = "LoopTop") ~> (pc = "Finalizing")
    /\ (pc = "Finalizing") ~> (pc = "Done")

\* ------------------------------------------------------------------ the per-batch loop

\* process_batch records the outcome of an item
ItemRecorded == pc = "Record" /\ pc' # "Record" /\ interrupted' = interrupted

\* process_batch ends the loop body of an item that did not raise
ItemCounted == pc = "Count" /\ pc' # "Count" /\ interrupted' = interrupted

C20_CountersNeverDecrease ==
    [][/\ stats'.total >= stats.total
       /\ stats'.processed >= stats.processed
       /\ stats'.successful >= stats.successful
       /\ stats'.failed >= stats.failed]_vars

\* ------------------------------------------------------------------ loading

\* a field of the container holds a list
ListValued(data, m) == data.members[m].value.t = "list"

\* the sequence a container is read for: under products, data, items in that
\* order, or else in the first field that holds a list
Located(data) ==
    IF HasMember(data, "products") THEN MemberValue(data, "products")
    ELSE IF HasMember(data, "data") THEN MemberValue(data, "data")
    ELSE IF HasMember(data, "items") THEN MemberValue(data, "items")
    ELSE data.members[CHOOSE m \in 1..Len(data.members) :
                         /\ ListValued(data, m)
                         /\ \A l \in 1..(m - 1) : ~ListValued(data, l)].value

\* C21: what load_json_file returns for a container object is a list, the one
\* located under products, data, items or else in the first list-valued field;
\* for a container without any list it raises.
C21_LoadReturnsTheSequence ==
    (pc # "Idle" /\ run.file.exists /\ run.file.valid /\ run.file.data.t = "dict") =>
       IF products # PyNone
       THEN /\ products.t = "list"
            /\ products = Located(run.file.data)
       ELSE /\ pc = "Raised"
            /\ ret.raised # ""

\* ------------------------------------------------------------------ normalizer failure

\* what the normalizer process_product selected made of the payload
Normalized == run_normalizer(proc.out.normalizer, proc.product_json)

Positive(v) == v.t = "num" /\ v.n > 0

\* C23: in the record a normalizer returns has_discount is True exactly when
\* discount_percentage holds a positive number; otherwise has_discount is False and
\* discount_percentage is None.
C23_DiscountFlagMatchesPercentage ==
    (norm.done /\ norm.out.t = "ProductData") =>
        IF Positive(norm.out.discount_percentage)
        THEN norm.out.has_discount = Bool(TRUE)
        ELSE /\ norm.out.has_discount = Bool(FALSE)
             /\ norm.out.discount_percentage = PyNone

\* C24: in the record a normalizer returns regular_price is None or a number
\* strictly greater than current_price.
C24_RegularPriceAboveCurrent ==
    (norm.done /\ norm.out.t = "ProductData" /\ norm.out.regular_price # PyNone) =>
        /\ norm.out.regular_price.t = "num"
        /\ norm.out.current_price.t = "num"
        /\ norm.out.regular_price.n > norm.out.current_price.n

\* ------------------------------------------------------------------ the returned counters

\* C25: in what process_file returns, stats['successful'] is the number of records
\* in results.
C25_SuccessfulCountsResults ==
    (pc = "Done") => ret.stats.successful = Len(ret.results)

\* process_file is between two items: no item of the call is half counted
BetweenItems == pc \in {"LoopTop", "Call", "Extend", "Save", "Pause"} /\ ~interrupted

\* C26: during a process_file call on a new processor, between two items processed
\* is successful + failed, and a call that returns without having been interrupted
\* returns processed = total.
C26_ProcessedIsSum ==
    /\ BetweenItems => stats.processed = stats.successful + stats.failed
    /\ (pc = "Done" /\ ~interrupted) => ret.stats.processed = ret.stats.total

\* C27: whatever calls were made on the processor before, the stats a process_file
\* call returns have processed <= total and successful + failed <= total.
C27_CountersWithinTotal ==
    (pc = "Done") =>
        /\ ret.stats.processed <= ret.stats.total
        /\ ret.stats.successful + ret.stats.failed <= ret.stats.total

\* ------------------------------------------------------------------ the merge

\* the canonical keys whose value is a field of the normalizer's record
NormalizerKeys ==
    {"store_name", "product_id", "product_name", "brand_name", "current_price",
     "regular_price", "discount_percentage", "has_discount", "currency_code",
     "rating_value", "rating_count"}

\* C28: in the record process_product returns, every canonical key holds the value
\* the normalizer gave to it, whatever the collaborator's JSON object holds.
C28_CanonicalFieldsKept ==
    (proc.done /\ proc.out.ret # PyNone) =>
        \A k \in NormalizerKeys : Get(proc.out.ret, k, Absent) = Normalized[k]

\* ------------------------------------------------------------------ batching

\* the batches process_file cuts, in order
Batches ==
    [k \in 1..total_batches(products, run.batch_size) |->
        batch_slice(products, (k - 1) * run.batch_size, run.batch_size)]

RECURSIVE Flatten(_)
\* the concatenation of a sequence of sequences
Flatten(seqs) == IF seqs = <<>> THEN <<>> ELSE Head(seqs) \o Flatten(Tail(seqs))

\* what ProductProcessor.process_batch returns for the whole sequence of the file
WholeSequence ==
    processor_process_batch(
        processor_outcomes(Elements(products), run.store_type, run.collab))

\* C29: the batches of a process_file call are consecutive slices: there are
\* ceil(N/batch_size) of them, their concatenation is the input, and the loop works
\* on them one after the other; a call that was not interrupted returns the records
\* of the successful items in input order, the same that ProductProcessor.process_batch
\* returns for the whole sequence, whatever the batch size.
C29_BatchingIsTransparent ==
    (pc \notin {"Idle", "Raised"} /\ products.t # "dict") =>
        /\ Len(Batches) = CeilDiv(PyLen(products), run.batch_size)
        /\ Flatten(Batches) = Elements(products)
        /\ i % run.batch_size = 0
        /\ pc \in {"Call", "Record", "Count", "Extend", "Save", "Pause"} =>
              /\ batch_num(i, run.batch_size) <= Len(Batches)
              /\ batch_slice(products, i, run.batch_size)
                    = Batches[batch_num(i, run.batch_size)]
        /\ (pc = "Done" /\ ~interrupted) =>
              /\ i = Len(Batches) * run.batch_size
              /\ ret.results = WholeSequence

\* three items, the middle one failing, in batches of two: the call has returned
\* the records of the first and the third item
C29_Witness ==
    /\ pc = "Done"
    /\ ~interrupted
    /\ PyLen(products) = 3
    /\ run.batch_size = 2
    /\ Len(Batches) = 2
    /\ Len(ret.results) = 2
    /\ ItemOf(ret.results[1]) = 1
    /\ ItemOf(ret.results[2]) = 3
    /\ ret.results = WholeSequence

\* ------------------------------------------------------------------ the connection

\* C30: after a process_and_store_products call, returned or raised, the connection
\* of the pipeline's DatabaseInserter is not open, and it is closed whenever the
\* call had opened it.
C30_ConnectionClosed ==
    store.done =>
        /\ ~is_connected(db)
        /\ store.connected => db.connection = "closed"

\* a call that opened the connection and raised out of bulk_insert_products, with
\* the connection closed behind it
C30_Witness ==
    /\ store.done
    /\ store.connected
    /\ store.raised
    /\ db.connection = "closed"

====
